---- MODULE Spec2Model ----
(***************************************************************************)
(* Model of the log-serving API of log-analyzer-agent: the logger that     *)
(* keeps a bounded JSON array of log entries in logs.json (api/lib/        *)
(* logger.js) and the json-server routes /api/write-log and /api/logs      *)
(* (api/app.js), both in src/unnamed/part_000; and of the schedule         *)
(* registry, the ScheduleManager of src/mastra/workflows/                  *)
(* log-monitoring-workflow.ts with the create-schedule, cancel-schedule    *)
(* and list-schedules tools that call it; of the log-analyser tool         *)
(* (src/unnamed/part_000) and of the A2A route of src/mastra/routes/       *)
(* a2a-agent-route.ts.                                                     *)
(*                                                                         *)
(* Text is a sequence of tokens.  A string concatenation is a sequence     *)
(* concatenation, a chunk of a read stream is a subsequence.  A JSON       *)
(* object is the three tokens "{", body, "}" (whitespace may stand between *)
(* them), so a chunk boundary may fall inside an object.                   *)
(***************************************************************************)
EXTENDS Integers, Sequences, FiniteSets, TLC

VARIABLES
    logFile,    \* LOG_FILE on disk: [exists, text]
    clock,      \* the system clock in ms since the epoch
    appended,   \* history: every entry a writeToFile call has persisted, in order
    initFile,   \* history: LOG_FILE as it was when the process started
    wreq,       \* the last request to /api/write-log (body)
    wres,       \* the response to it: [status, at], at the value of calls after it
    calls,      \* the number of writeToFile calls made so far
    q,          \* the request to /api/logs: its parameters, locals and stream position
    res,        \* the response to it: [status, body, ended]
    perm,       \* the access the process has to LOG_FILE: "rw", "unreadable", "unwritable"
    lastWrite,  \* how the last writeToFile call ended: [outcome, reported]
    schedules,        \* ScheduleManager.schedules: the configs in the Map's insertion order
    scheduleCounter,  \* ScheduleManager.scheduleCounter
    creating,   \* the executions of the create-schedule tool, by call number
    ret,        \* what the last cancel or list call of the registry returned
    oplog,      \* history: the operations carried out on the registry, in order
    tool,       \* the last execution of the cancel-schedule tool: [called, context, result, message]
    an,         \* the execution of the log-analyser tool: its position, locals and outcome
    rpc         \* the request to /a2a/agent/:agentId: its body, the handler's locals and the response

logVars == <<logFile, appended, initFile, wreq, wres, calls, q, res, perm, lastWrite>>
regVars == <<schedules, scheduleCounter, creating, ret, oplog, tool>>
agentVars == <<an, rpc>>
vars == <<logVars, clock, regVars, agentVars>>

-----------------------------------------------------------------------------
(* Bounds of the model *)

\* appends of one run of Spec
MaxAppends == 1
\* appends of one run of SpecRetention
MaxChain == 502
\* the clock advances by TickMs between two calls of getTimestamp
TickMs == 1
\* appends of one run of SpecAppend
MaxWrites == 3
\* executions of the create-schedule tool in one run of SpecSchedules
MaxCreates == 2
\* the last reading of the clock in one run of SpecSchedules
MaxClock == 2

-----------------------------------------------------------------------------
(* JavaScript values *)

\* A string that is read as a date: the ISO text of an instant, or other text.
IsoStr(ms) == [txt |-> "iso", ms |-> ms]
GarbageStr == [txt |-> "garbage", ms |-> 0]
\* the property or parameter is not there (undefined)
Missing    == [txt |-> "missing", ms |-> 0]

\* A number, NaN or null
Num(v)  == [kind |-> "num", v |-> v]
NaN     == [kind |-> "nan", v |-> 0]
Null    == [kind |-> "null", v |-> 0]

\* !x of a number, NaN or null
Falsy(x) == x.kind # "num" \/ x.v = 0

\* a <= b of two numbers; a comparison with NaN is false
Leq(a, b) == a.kind = "num" /\ b.kind = "num" /\ a.v <= b.v

\* new Date(s).getTime()
DateGetTime(s) == IF s.txt = "iso" THEN Num(s.ms) ELSE NaN

\* new Date(ms).toISOString()
ToISOString(ms) == IsoStr(ms)

\* the absent value of level, status (undefined) and the falsy empty string
Undefined == "<undefined>"
FalsyText(s) == s = Undefined \/ s = ""

-----------------------------------------------------------------------------
(* Tokens and JSON text *)

\* a token is <<type>> or <<type, members>>
Tok(t)   == <<t>>
LB       == Tok("[")
RB       == Tok("]")
LC       == Tok("{")
RC       == Tok("}")
Comma    == Tok(",")
WS       == Tok("ws")
NullTok  == Tok("null")
Junk     == Tok("junk")
Skip     == Tok("skip")
\* the members of an object
Body(b)  == <<"body", b>>
\* a parsed object
Obj(b)   == <<"obj", b>>

IsValue(x) == x[1] \in {"obj", "null", "num"}

Min(a, b) == IF a < b THEN a ELSE b

\* the tokens of s without whitespace
Strip(s) == SelectSeq(s, LAMBDA x : x[1] # "ws")

\* "{" body "}" becomes one object; a brace or body out of place is junk
Lex(s) ==
    LET n == Len(s)
        at(i) ==
            IF s[i][1] = "{"
            THEN IF i + 2 <= n /\ s[i + 1][1] = "body" /\ s[i + 2][1] = "}"
                 THEN Obj(s[i + 1][2]) ELSE Junk
            ELSE IF s[i][1] = "body"
            THEN IF i > 1 /\ i < n /\ s[i - 1][1] = "{" /\ s[i + 1][1] = "}"
                 THEN Skip ELSE Junk
            ELSE IF s[i][1] = "}"
            THEN IF i > 2 /\ s[i - 1][1] = "body" /\ s[i - 2][1] = "{"
                 THEN Skip ELSE Junk
            ELSE s[i]
    IN SelectSeq([i \in 1..n |-> at(i)], LAMBDA x : x[1] # "skip")

ParseFailure == [ok |-> FALSE, isArray |-> FALSE, elems |-> <<>>]

\* JSON.parse(text): ok is FALSE where it throws a SyntaxError
JSONParse(text) ==
    LET u == Lex(Strip(text))
        n == Len(u)
    IN IF \E i \in 1..n : u[i][1] = "junk" THEN ParseFailure
       ELSE IF n = 1 /\ IsValue(u[1])
       THEN [ok |-> TRUE, isArray |-> FALSE, elems |-> <<>>]
       ELSE IF n >= 2 /\ u[1][1] = "[" /\ u[n][1] = "]"
               /\ (n = 2 \/ (n % 2 = 1 /\ \A j \in 2..(n - 1) :
                        IF j % 2 = 0 THEN IsValue(u[j]) ELSE u[j][1] = ","))
       THEN [ok |-> TRUE, isArray |-> TRUE,
             elems |-> [j \in 1..((n - 1) \div 2) |-> u[2 * j]]]
       ELSE ParseFailure

\* JSON.stringify(value) of one array element
Stringify(x) == IF x[1] = "obj" THEN <<LC, Body(x[2]), RC>> ELSE <<Tok(x[1])>>

\* JSON.stringify(value, null, 2) of one array element; the line breaks
\* inside an object are part of its body token
StringifyIndented(x) == Stringify(x)

RECURSIVE IndentedElems(_, _)
IndentedElems(elems, k) ==
    IF k > Len(elems) THEN <<>>
    ELSE <<WS>> \o StringifyIndented(elems[k])
         \o (IF k < Len(elems) THEN <<Comma>> ELSE <<WS>>)
         \o IndentedElems(elems, k + 1)

\* JSON.stringify(array, null, 2): "[]", or every element on a line of its
\* own: "[", then for each element a line break with its indentation, the
\* element and a "," (after the last one the line break before "]"), then "]"
StringifyArrayIndented(elems) ==
    LET n == Len(elems)
    IN IF n = 0 THEN <<LB, RB>>
       ELSE IF \A k \in 1..n : elems[k][1] = "obj"
       THEN [i \in 1..(5 * n + 2) |->
               IF i = 1 THEN LB
               ELSE IF i = 5 * n + 2 THEN RB
               ELSE LET k == ((i - 2) \div 5) + 1
                        r == ((i - 2) % 5) + 1
                    IN CASE r = 1 -> WS
                         [] r = 2 -> LC
                         [] r = 3 -> Body(elems[k][2])
                         [] r = 4 -> RC
                         [] r = 5 -> IF k < n THEN Comma ELSE WS]
       ELSE <<LB>> \o IndentedElems(elems, 1) \o <<RB>>

-----------------------------------------------------------------------------
(* api/lib/logger.js *)

\* the argument of slice at line 42
KeptLogs == 488

\* Array.prototype.reverse
Reverse(s) == [i \in 1..Len(s) |-> s[Len(s) + 1 - i]]

\* Array.prototype.slice(0, k)
SliceTo(s, k) == SubSeq(s, 1, Min(k, Len(s)))

\* the entry writeToFile constructs (lines 28-33)
MessageObj(now, log) ==
    [timestamp |-> ToISOString(now),
     level     |-> log.level,
     status    |-> IF FalsyText(log.status) THEN "N/A" ELSE log.status,
     message   |-> log.message]

\* KeepLast without the truncation
KeepLastUnbounded(existingLogs, messageObj) ==
    Append(existingLogs, Obj(messageObj))

\* KeepLast without the two reversals
KeepLastOldest(existingLogs, messageObj) ==
    Append(SliceTo(existingLogs, KeptLogs), Obj(messageObj))

\* KeepLast that starts from an empty array
KeepLastNewOnly(existingLogs, messageObj) == <<Obj(messageObj)>>

\* the array writeToFile persists (lines 41-44)
KeepLast(existingLogs, messageObj) ==
    Append(Reverse(SliceTo(Reverse(existingLogs), KeptLogs)), Obj(messageObj))

\* lines 36-38: the parsed file, or [] when there is no file
ExistingLogs(f) ==
    IF f.exists THEN JSONParse(f.text)
    ELSE [ok |-> TRUE, isArray |-> TRUE, elems |-> <<>>]

\* writeToFile throws inside its try block: JSON.parse fails, or the parsed
\* value has no reverse method
WriteThrows(f) == LET p == ExistingLogs(f) IN ~p.ok \/ ~p.isArray

\* LOG_FILE after writeToFile(log) at time now; an exception is caught and
\* leaves the file as it is
WriteToFile(f, now, log) ==
    IF WriteThrows(f) THEN f
    ELSE [exists |-> TRUE,
          text   |-> StringifyArrayIndented(
                        KeepLast(ExistingLogs(f).elems, MessageObj(now, log)))]

\* the entries of a file that holds a JSON array, <<>> otherwise
Entries(f) ==
    LET p == ExistingLogs(f) IN IF p.ok /\ p.isArray THEN p.elems ELSE <<>>

WellFormed(f) ==
    /\ f.exists
    /\ LET p == JSONParse(f.text)
       IN p.ok /\ p.isArray /\ \A i \in 1..Len(p.elems) : p.elems[i][1] = "obj"

\* the argument each method of logger passes to writeToFile (lines 52-81)
LoggerLogArg(message, status)   == [level |-> "INFO", message |-> message, status |-> status]
LoggerErrorArg(message, status) == [level |-> "ERROR", message |-> message, status |-> status]
LoggerWarnArg(message, status)  == [level |-> "WARN", message |-> message, status |-> status]
LoggerInfoArg(message, status)  == [level |-> "INFO", message |-> message, status |-> status]

\* the access of the process to LOG_FILE
Perms == {"rw", "unreadable", "unwritable"}

\* the try block of writeToFile throws (lines 27-46): readFileSync fails on a
\* file that exists and cannot be read, JSON.parse or reverse fail on its
\* content, writeFileSync fails on a file that cannot be written
TryBlockThrows(f, p) ==
    \/ f.exists /\ p = "unreadable"
    \/ WriteThrows(f)
    \/ p = "unwritable"

\* CatchBlock with the error thrown again
CatchBlockRethrows(threw) ==
    [outcome |-> IF threw THEN "raised" ELSE "returned", reported |-> threw]

\* how writeToFile ends (lines 47-49): the catch block reports the error with
\* console.error and returns
CatchBlock(threw) == [outcome |-> "returned", reported |-> threw]

NoWrite == [outcome |-> "none", reported |-> FALSE]

\* one call of writeToFile(log), dt ms after the previous reading of the clock
DoWrite(log, dt) ==
    /\ clock' = clock + dt
    /\ calls' = calls + 1
    /\ logFile' = IF TryBlockThrows(logFile, perm) THEN logFile
                  ELSE WriteToFile(logFile, clock + dt, log)
    /\ appended' = IF TryBlockThrows(logFile, perm) THEN appended
                   ELSE Append(appended, MessageObj(clock + dt, log))
    /\ lastWrite' = CatchBlock(TryBlockThrows(logFile, perm))
    /\ UNCHANGED <<perm, regVars, agentVars>>

\* a request to /api/logs is being served
Reading == q.mode \in {"pass", "filter"}

\* history: the file was rewritten while the request was being served
RacedBy(f) == q.raced \/ (Reading /\ f # logFile)

\* a direct call of logger.log, logger.error, logger.warn or logger.info
LoggerLog(message, status, dt) ==
    /\ DoWrite(LoggerLogArg(message, status), dt)
    /\ q' = [q EXCEPT !.raced = RacedBy(logFile')]
    /\ UNCHANGED <<initFile, wreq, wres, res>>

LoggerError(message, status, dt) ==
    /\ DoWrite(LoggerErrorArg(message, status), dt)
    /\ q' = [q EXCEPT !.raced = RacedBy(logFile')]
    /\ UNCHANGED <<initFile, wreq, wres, res>>

LoggerWarn(message, status, dt) ==
    /\ DoWrite(LoggerWarnArg(message, status), dt)
    /\ q' = [q EXCEPT !.raced = RacedBy(logFile')]
    /\ UNCHANGED <<initFile, wreq, wres, res>>

LoggerInfo(message, status, dt) ==
    /\ DoWrite(LoggerInfoArg(message, status), dt)
    /\ q' = [q EXCEPT !.raced = RacedBy(logFile')]
    /\ UNCHANGED <<initFile, wreq, wres, res>>

-----------------------------------------------------------------------------
(* api/app.js: /api/write-log *)

NoRequest == [level |-> Undefined, message |-> 0, status |-> Undefined]

\* the handler of /api/write-log for one request body (lines 97-106);
\* message 0 is an absent or empty message.  Line 105 is reached when
\* logger.log returns; an exception would leave the handler and be answered
\* 500 by the error handler of the framework.
WriteLog(body, dt) ==
    /\ wreq' = body
    /\ IF FalsyText(body.level) \/ body.message = 0
       THEN /\ wres' = [status |-> 400, at |-> calls]
            /\ UNCHANGED <<logFile, clock, appended, calls, initFile, q, res>>
            /\ UNCHANGED <<perm, lastWrite, regVars, agentVars>>
       ELSE /\ DoWrite(LoggerLogArg(body.message, body.status), dt)
            /\ wres' = [status |-> IF lastWrite'.outcome = "returned" THEN 201 ELSE 500,
                        at |-> calls + 1]
            /\ q' = [q EXCEPT !.raced = RacedBy(logFile')]
            /\ UNCHANGED <<initFile, res>>

-----------------------------------------------------------------------------
(* api/app.js: /api/logs *)

NullStr  == [txt |-> "null", ms |-> 0]
UndefStr == [txt |-> "undefined", ms |-> 0]

\* isValidParam (lines 122-123)
IsValidParam(param) == param.txt \notin {"missing", "", "null", "undefined"}

\* fromTime and toTime (lines 125-126)
ParamTime(param) == IF IsValidParam(param) THEN DateGetTime(param) ELSE Null

\* NoFilter with null tested for instead of falsiness
NoFilterOnlyNull(fromTime, toTime) == fromTime = Null /\ toTime = Null

\* the test of line 129: no filtering needed
NoFilter(fromTime, toTime) == Falsy(fromTime) /\ Falsy(toTime)

\* line 173: log.timestamp is truthy (read on a value that is not null)
HasTimestamp(log) == log[1] = "obj" /\ log[2].timestamp.txt \notin {"missing", ""}

\* passesFilter (lines 175-178)
PassesFilter(log, fromTime, toTime) ==
    LET logTime == DateGetTime(log[2].timestamp)
    IN /\ (Falsy(fromTime) \/ Leq(fromTime, logTime))
       /\ (Falsy(toTime) \/ Leq(logTime, toTime))

\* the messages of logger.error at lines 138 and 209
ErrorStreamingMsg == 901
ErrorReadingMsg   == 902
\* the Error object passed as status
ErrObject == "<Error>"

\* the body {error: "Internal Server Error"}
ErrorJson == Tok("errorJson")

NoResponse == [status |-> 0, body |-> <<>>, ended |-> FALSE]

\* res.write(text): the first write sends the headers with status 200
ResWrite(r, text) ==
    [r EXCEPT !.status = IF @ = 0 THEN 200 ELSE @, !.body = @ \o text]

\* res.end()
ResEnd(r) == [r EXCEPT !.status = IF @ = 0 THEN 200 ELSE @, !.ended = TRUE]

\* res.status(500).json({error})
ResError500 == [status |-> 500, body |-> <<ErrorJson>>, ended |-> TRUE]

\* Accumulate that keeps the last chunk only
AccumulateLastChunk(buffer, chunk) == chunk

\* buffer += chunk (line 154)
Accumulate(buffer, chunk) == buffer \o chunk

\* the writes of the forEach loop (lines 172-187) for the entries that pass:
\* a comma before every entry but the first of the response
EmitText(passing, isFirstLog) ==
    LET n == Len(passing)
        all == [i \in 1..(4 * n) |->
                  LET k == ((i - 1) \div 4) + 1
                      r == ((i - 1) % 4) + 1
                  IN CASE r = 1 -> Comma
                       [] r = 2 -> LC
                       [] r = 3 -> Body(passing[k][2])
                       [] r = 4 -> RC]
    IN IF isFirstLog /\ n > 0 THEN SubSeq(all, 2, 4 * n) ELSE all

\* the locals of the filtering reader (lines 149-151) and what it has written
FilterStart == [buffer |-> <<>>, isFirstLog |-> TRUE, arrayStarted |-> FALSE,
                acc |-> <<>>, out |-> <<>>]

\* fileStream.on("data") (lines 153-194).  The loop stops at the first null
\* element, where log.timestamp throws; the catch block swallows it, as it
\* swallows the SyntaxError of JSON.parse and the "Logs must be an array" error,
\* and the buffer is then not cleared.
FilterOnData(st, chunk, fromTime, toTime) ==
    LET buffer == Accumulate(st.buffer, chunk)
        p == JSONParse(buffer)
    IN IF ~p.ok \/ ~p.isArray
       THEN [st EXCEPT !.buffer = buffer, !.acc = buffer]
       ELSE LET n == Len(p.elems)
                nulls == {i \in 1..n : p.elems[i][1] = "null"}
                stop == IF nulls = {} THEN n + 1
                        ELSE CHOOSE i \in nulls : \A j \in nulls : i <= j
                visited == SubSeq(p.elems, 1, stop - 1)
                passing == SelectSeq(visited,
                              LAMBDA log : HasTimestamp(log)
                                           /\ PassesFilter(log, fromTime, toTime))
            IN [buffer |-> IF stop <= n THEN buffer ELSE <<>>,
                isFirstLog |-> st.isFirstLog /\ passing = <<>>,
                arrayStarted |-> TRUE,
                acc |-> buffer,
                out |-> st.out
                        \o (IF st.arrayStarted THEN <<>> ELSE <<LB>>)
                        \o EmitText(passing, st.isFirstLog)]

\* fileStream.on("end") (lines 196-206): what is written before res.end()
FilterOnEnd(st) ==
    [st EXCEPT !.out = @ \o (IF st.arrayStarted THEN <<RB>> ELSE <<LB, RB>>)]

IdleQuery ==
    [mode |-> "idle", kind |-> "none", from |-> Missing, to |-> Missing,
     fromTime |-> Null, toTime |-> Null, pos |-> 0, st |-> FilterStart,
     snap |-> [exists |-> FALSE, text |-> <<>>], raced |-> FALSE,
     imm |-> FALSE, wreq |-> NoRequest, chunks |-> 0]  \* chunks: 0, 1 or 2 for more

\* the synchronous part of the handler (lines 108-148): the parameters are
\* read and a read stream is created
QueryStart(from, to) ==
    /\ q.mode = "idle"
    /\ q' = [IdleQuery EXCEPT
               !.mode = IF NoFilter(ParamTime(from), ParamTime(to))
                        THEN "pass" ELSE "filter",
               !.kind = IF NoFilter(ParamTime(from), ParamTime(to))
                        THEN "pass" ELSE "filter",
               !.from = from, !.to = to,
               !.fromTime = ParamTime(from), !.toTime = ParamTime(to),
               !.snap = logFile,
               !.imm = (wres.status = 201 /\ wres.at = calls),
               !.wreq = wreq]
    /\ res' = NoResponse
    /\ UNCHANGED <<logFile, clock, appended, initFile, wreq, wres, calls>>
    /\ UNCHANGED <<perm, lastWrite, regVars, agentVars>>

\* a "data" event with the next k tokens of the file: stream.pipe(res) writes
\* the chunk (line 135), the filtering reader runs its handler
QueryData(k) ==
    /\ Reading /\ logFile.exists
    /\ q.pos + k <= Len(logFile.text)
    /\ LET chunk == SubSeq(logFile.text, q.pos + 1, q.pos + k)
           st == FilterOnData(q.st, chunk, q.fromTime, q.toTime)
       IN IF q.mode = "pass"
          THEN /\ res' = ResWrite(res, chunk)
               /\ q' = [q EXCEPT !.pos = @ + k, !.chunks = Min(@ + 1, 2)]
          ELSE /\ res' = IF st.out = q.st.out THEN res
                         ELSE ResWrite(res, SubSeq(st.out, Len(q.st.out) + 1, Len(st.out)))
               /\ q' = [q EXCEPT !.pos = @ + k, !.chunks = Min(@ + 1, 2), !.st = st]
    /\ UNCHANGED <<logFile, clock, appended, initFile, wreq, wres, calls>>
    /\ UNCHANGED <<perm, lastWrite, regVars, agentVars>>

\* the "end" event: the pipe ends the response, the filtering reader closes
\* the array
QueryEnd ==
    /\ Reading /\ logFile.exists
    /\ q.pos >= Len(logFile.text)
    /\ IF q.mode = "pass"
       THEN /\ res' = ResEnd(res)
            /\ q' = [q EXCEPT !.mode = "done"]
       ELSE LET st == FilterOnEnd(q.st)
            IN /\ res' = ResEnd(ResWrite(res, SubSeq(st.out, Len(q.st.out) + 1, Len(st.out))))
               /\ q' = [q EXCEPT !.mode = "done", !.st = st]
    /\ UNCHANGED <<logFile, clock, appended, initFile, wreq, wres, calls>>
    /\ UNCHANGED <<perm, lastWrite, regVars, agentVars>>

\* the "error" handlers (lines 137-142 and 208-215): logger.error appends an
\* entry to LOG_FILE, then 500 is sent unless the headers have been sent; the
\* filtering reader then ends the response, the pipe leaves it open
QueryOnError(dt) ==
    /\ DoWrite(LoggerErrorArg(IF q.mode = "pass" THEN ErrorStreamingMsg
                              ELSE ErrorReadingMsg, ErrObject), dt)
    /\ res' = IF res.status = 0 THEN ResError500
              ELSE IF q.mode = "pass" THEN res ELSE ResEnd(res)
    /\ q' = [q EXCEPT !.mode = "failed"]
    /\ UNCHANGED <<initFile, wreq, wres>>

\* the stream cannot open a file that does not exist (ENOENT)
QueryOpenError(dt) == Reading /\ ~logFile.exists /\ QueryOnError(dt)

\* a read of the open file fails (EIO)
QueryReadError(dt) == Reading /\ logFile.exists /\ QueryOnError(dt)

-----------------------------------------------------------------------------
(* src/mastra/workflows/log-monitoring-workflow.ts: ScheduleManager, and    *)
(* the create-schedule tool of src/unnamed/part_000 that calls it.  A Map   *)
(* is the sequence of its values in insertion order; every value holds its  *)
(* key in the field id.                                                     *)

\* MapHas that finds every key in a Map that is not empty
MapHasAny(m, id) == m # <<>>

\* Map.prototype.has
MapHas(m, id) == \E i \in 1..Len(m) : m[i].id = id

\* MapSet that empties the Map first
MapSetAlone(m, id, config) == <<config>>

\* Map.prototype.set: a key that is there keeps its place and takes the new
\* value, a new key goes to the end
MapSet(m, id, config) ==
    IF MapHas(m, id)
    THEN [i \in 1..Len(m) |-> IF m[i].id = id THEN config ELSE m[i]]
    ELSE Append(m, config)

\* MapDelete that removes the oldest value, whatever the key
MapDeleteOldest(m, id) == IF m = <<>> THEN m ELSE Tail(m)

\* Map.prototype.delete
MapDelete(m, id) == SelectSeq(m, LAMBDA config : config.id # id)

\* the characters of the text the agent answers with: white space, the
\* characters backquote, quote and double quote, and any other run of text
\* as one token
Space == "<space>"
Quotes == {"<backquote>", "<quote>", "<doublequote>"}

RECURSIVE TrimStart(_)
\* String.prototype.trim, front and back
TrimStart(text) ==
    IF text # <<>> /\ Head(text) = Space THEN TrimStart(Tail(text)) ELSE text
Trim(text) == Reverse(TrimStart(Reverse(TrimStart(text))))

\* response.text.trim().replace(...) of line 207: the three quote characters
\* are removed
CleanCron(text) == SelectSeq(Trim(text), LAMBDA ch : ch \notin Quotes)

\* ScheduleId without the counter
ScheduleIdTimeOnly(counter, now) == <<0, now>>

\* `schedule-${this.scheduleCounter}-${Date.now()}` (line 228): two ids are
\* the same text when both numbers are the same
ScheduleId(counter, now) == <<counter, now>>

\* the default of timeRange (line 237)
DefaultTimeRange == "last 1 hour"

\* the ScheduleConfig createSchedule stores (lines 231-239)
ScheduleConfigOf(id, args, cronExpression, now) ==
    [id             |-> id,
     endpoint       |-> args.endpoint,
     interval       |-> args.interval,
     cronExpression |-> cronExpression,
     authToken      |-> args.authToken,
     timeRange      |-> IF FalsyText(args.timeRange) THEN DefaultTimeRange
                        ELSE args.timeRange,
     createdAt      |-> ToISOString(now)]


\* the id of no schedule; the counter of an id is 1 at least
NoId == <<0, 0>>

NoArgs == [endpoint |-> "", interval |-> "", authToken |-> Undefined,
           timeRange |-> Undefined]
NoResult == [success |-> FALSE, id |-> NoId, cronExpression |-> <<>>, error |-> <<>>]
IdleCall == [pc |-> "idle", args |-> NoArgs, result |-> NoResult]

\* the messages of the errors a creation ends with (part_000 line 279,
\* log-monitoring-workflow.ts line 268), as sequences of their parts
AgentNotFound == <<"Log analyser agent not found in Mastra instance">>
FailedToCreate(message) == <<"Failed to create schedule: ", message>>
\* the messages of a rejected agent.generate and of .trim() on undefined
GenerateFailed == "generate failed"
TextUndefined == "Cannot read properties of undefined (reading 'trim')"

\* Failure that reports success
FailureAsSuccess(error) == [NoResult EXCEPT !.success = TRUE, !.error = error]

\* what the tool returns from its catch block (part_000 lines 295-301)
Failure(error) == [NoResult EXCEPT !.error = error]

\* the calls of the registry: the entries of oplog, and the call ret is the
\* result of
CreateOp(config)        == [op |-> "create", config |-> config, id |-> config.id,
                            endpoint |-> config.endpoint]
CancelOp(id)            == [op |-> "cancel", config |-> NoArgs, id |-> id, endpoint |-> ""]
CancelByEndpointOp(e)   == [op |-> "cancelByEndpoint", config |-> NoArgs, id |-> NoId,
                            endpoint |-> e]
CancelAllOp             == [op |-> "cancelAll", config |-> NoArgs, id |-> NoId,
                            endpoint |-> ""]
ListOp                  == [op |-> "list", config |-> NoArgs, id |-> NoId, endpoint |-> ""]
NoOp                    == [op |-> "none", config |-> NoArgs, id |-> NoId, endpoint |-> ""]

\* what a call of the registry returned; cancelledCount -1 where the result
\* has no such property, list <<>> where it is no list
NoReturn == [call |-> NoOp, success |-> FALSE, cancelledCount |-> -1, list |-> <<>>]
Return(call, success, count) ==
    [call |-> call, success |-> success, cancelledCount |-> count, list |-> <<>>]

\* the context of an execution of the cancel-schedule tool (part_000 lines
\* 317-332): has holds the names of the properties that are there, a property
\* that is not there has the value given here.  A scheduleId is an id, or
\* <<>> for the empty string.
NoContext == [has |-> {}, cancelAll |-> FALSE, scheduleId |-> <<>>, endpoint |-> ""]

\* the message of the tool when no selector is given (part_000 lines 354-358)
PleaseProvide == <<"Please provide either scheduleId, endpoint, or set cancelAll to true">>

NoToolCall == [called |-> FALSE, context |-> NoContext, result |-> NoReturn,
               message |-> <<>>]

\* createScheduleTool.execute up to the first await (part_000 lines 275-290,
\* createSchedule lines 222-224, parseToCronExpression lines 182-206): without
\* an agent the tool fails at once, else agent.generate is called and the
\* execution waits for it.  Call c starts after call c - 1 has started.
ExecuteCreate(c, args, hasAgent) ==
    /\ creating[c].pc = "idle"
    /\ IF c = 1 THEN TRUE ELSE creating[c - 1].pc # "idle"
    /\ creating' = [creating EXCEPT ![c] =
                      IF hasAgent
                      THEN [pc |-> "parsing", args |-> args, result |-> NoResult]
                      ELSE [pc |-> "failed", args |-> args,
                            result |-> Failure(AgentNotFound)]]
    /\ UNCHANGED <<schedules, scheduleCounter, ret, oplog, tool, clock, logVars, agentVars>>

\* the response of the agent: its text, or no text property
Response(text) == [hasText |-> TRUE, text |-> text]
NoTextResponse == [hasText |-> FALSE, text |-> <<>>]

\* agent.generate resolves with response: the rest of createSchedule runs in
\* one piece (lines 207 and 226-243) and the tool returns its result
\* (part_000 lines 291-294).  A response without text makes .trim() throw,
\* which createSchedule wraps and the tool reports.
GenerateResolves(c, response) ==
    /\ creating[c].pc = "parsing"
    /\ IF ~response.hasText
       THEN /\ creating' = [creating EXCEPT ![c].pc = "failed",
                              ![c].result = Failure(FailedToCreate(TextUndefined))]
            /\ UNCHANGED <<schedules, scheduleCounter, oplog>>
       ELSE LET cronExpression == CleanCron(response.text)
                counter == scheduleCounter + 1
                scheduleId == ScheduleId(counter, clock)
                config == ScheduleConfigOf(scheduleId, creating[c].args,
                                           cronExpression, clock)
            IN /\ scheduleCounter' = counter
               /\ schedules' = MapSet(schedules, scheduleId, config)
               /\ creating' = [creating EXCEPT ![c].pc = "returned",
                                 ![c].result = [success |-> TRUE, id |-> scheduleId,
                                                cronExpression |-> cronExpression,
                                                error |-> <<>>]]
               /\ oplog' = Append(oplog, CreateOp(config))
    /\ UNCHANGED <<ret, tool, clock, logVars, agentVars>>

\* agent.generate rejects: createSchedule throws "Failed to create schedule"
\* (lines 267-273) and the tool returns success false
GenerateRejects(c) ==
    /\ creating[c].pc = "parsing"
    /\ creating' = [creating EXCEPT ![c].pc = "failed",
                      ![c].result = Failure(FailedToCreate(GenerateFailed))]
    /\ UNCHANGED <<schedules, scheduleCounter, ret, oplog, tool, clock, logVars, agentVars>>

\* cancelSchedule(scheduleId) (lines 279-297).  The three cancel methods say
\* nothing of tool: the caller does, the tool itself or a direct call.
CancelSchedule(scheduleId) ==
    /\ IF ~MapHas(schedules, scheduleId)
       THEN /\ ret' = Return(CancelOp(scheduleId), FALSE, -1)
            /\ UNCHANGED <<schedules, oplog>>
       ELSE /\ schedules' = MapDelete(schedules, scheduleId)
            /\ ret' = Return(CancelOp(scheduleId), TRUE, -1)
            /\ oplog' = Append(oplog, CancelOp(scheduleId))
    /\ UNCHANGED <<scheduleCounter, creating, clock, logVars, agentVars>>

\* DeleteEach that stops after the first schedule
DeleteFirstOnly(m, toCancel) == MapDelete(m, Head(toCancel).id)

RECURSIVE DeleteEach(_, _)
\* schedulesToCancel.forEach(schedule => this.schedules.delete(schedule.id))
DeleteEach(m, toCancel) ==
    IF toCancel = <<>> THEN m
    ELSE DeleteEach(MapDelete(m, Head(toCancel).id), Tail(toCancel))

\* cancelSchedulesByEndpoint(endpoint) (lines 302-330)
CancelSchedulesByEndpoint(endpoint) ==
    LET schedulesToCancel == SelectSeq(schedules, LAMBDA schedule : schedule.endpoint = endpoint)
    IN /\ IF Len(schedulesToCancel) = 0
          THEN /\ ret' = Return(CancelByEndpointOp(endpoint), FALSE, 0)
               /\ UNCHANGED <<schedules, oplog>>
          ELSE /\ schedules' = DeleteEach(schedules, schedulesToCancel)
               /\ ret' = Return(CancelByEndpointOp(endpoint), TRUE, Len(schedulesToCancel))
               /\ oplog' = Append(oplog, CancelByEndpointOp(endpoint))
       /\ UNCHANGED <<scheduleCounter, creating, clock, logVars, agentVars>>

\* cancelAllSchedules() (lines 335-359)
CancelAllSchedules ==
    LET count == Len(schedules)
    IN /\ IF count = 0
          THEN /\ ret' = Return(CancelAllOp, FALSE, 0)
               /\ UNCHANGED <<schedules, oplog>>
          ELSE /\ schedules' = <<>>
               /\ ret' = Return(CancelAllOp, TRUE, count)
               /\ oplog' = Append(oplog, CancelAllOp)
       /\ UNCHANGED <<scheduleCounter, creating, clock, logVars, agentVars>>

\* Selector that looks at endpoint before scheduleId
SelectorEndpointFirst(context) ==
    IF "cancelAll" \in context.has /\ context.cancelAll THEN "cancelAll"
    ELSE IF "endpoint" \in context.has /\ context.endpoint # "" THEN "endpoint"
    ELSE IF "scheduleId" \in context.has /\ context.scheduleId # <<>> THEN "scheduleId"
    ELSE "none"

\* the branch cancelScheduleTool.execute takes (part_000 lines 337, 342, 347):
\* the first of context.cancelAll, context.scheduleId and context.endpoint
\* that is truthy
Selector(context) ==
    IF "cancelAll" \in context.has /\ context.cancelAll THEN "cancelAll"
    ELSE IF "scheduleId" \in context.has /\ context.scheduleId # <<>> THEN "scheduleId"
    ELSE IF "endpoint" \in context.has /\ context.endpoint # "" THEN "endpoint"
    ELSE "none"

\* cancelScheduleTool.execute (part_000 lines 334-364): the method of the
\* selector is called and its return value returned; the methods are
\* synchronous and throw nothing, so the catch block is not reached
ExecuteCancel(context) ==
    /\ CASE Selector(context) = "cancelAll" -> CancelAllSchedules
         [] Selector(context) = "scheduleId" -> CancelSchedule(context.scheduleId)
         [] Selector(context) = "endpoint" -> CancelSchedulesByEndpoint(context.endpoint)
         [] OTHER -> UNCHANGED <<schedules, scheduleCounter, creating, ret, oplog,
                                 clock, logVars, agentVars>>
    /\ tool' = [called |-> TRUE, context |-> context,
                result |-> IF Selector(context) = "none"
                           THEN [NoReturn EXCEPT !.success = FALSE] ELSE ret',
                message |-> IF Selector(context) = "none" THEN PleaseProvide ELSE <<>>]

\* ListEntry that copies the whole configuration
ListEntryWithToken(schedule) == schedule

\* the entry of the listing for one schedule (lines 372-379): every property
\* but authToken
ListEntry(schedule) ==
    [id |-> schedule.id, endpoint |-> schedule.endpoint, interval |-> schedule.interval,
     cronExpression |-> schedule.cronExpression, createdAt |-> schedule.createdAt,
     timeRange |-> schedule.timeRange]

\* the value listSchedules returns for the Map m (lines 364-380)
Listing(m) == [i \in 1..Len(m) |-> ListEntry(m[i])]

\* listSchedules()
ListSchedules ==
    /\ ret' = [call |-> ListOp, success |-> TRUE, cancelledCount |-> -1,
               list |-> Listing(schedules)]
    /\ UNCHANGED <<schedules, scheduleCounter, creating, oplog, tool, clock, logVars, agentVars>>

\* the messages of the list-schedules tool (part_000 lines 386 and 393)
NoActiveSchedules == <<"No active schedules">>
FoundSchedules(n) == <<"Found ", n, " active schedule(s)">>

\* what listSchedulesTool.execute returns when the Map is m (part_000 lines
\* 380-396)
ListSchedulesToolResult(m) ==
    LET list == Listing(m)
    IN IF Len(list) = 0
       THEN [success |-> TRUE, message |-> NoActiveSchedules, schedules |-> <<>>]
       ELSE [success |-> TRUE, message |-> FoundSchedules(Len(list)), schedules |-> list]

\* time passes between two steps of the process
Tick(dt) ==
    /\ clock' = clock + dt
    /\ UNCHANGED <<logVars, regVars, agentVars>>

\* the registry of a process that has just started (lines 177-178)
RegistryInit ==
    /\ schedules = <<>>
    /\ scheduleCounter = 0
    /\ creating = [c \in 1..MaxCreates |-> IdleCall]
    /\ ret = NoReturn
    /\ oplog = <<>>
    /\ tool = NoToolCall

-----------------------------------------------------------------------------
(* src/mastra/tools/log-analyser-tool.ts (src/unnamed/part_000 lines        *)
(* 400-944): logAnalyserTool.execute with parseTimeRangeWithAI and getLogs. *)
(* A text of the model is a sequence of tokens: "{", "}", the members of an *)
(* object, and junk for any other characters.                               *)

\* null, where a string may be
NullText == "<null>"

\* !s of a string, undefined or null
FalsyValue(s) == s \in {Undefined, NullText, ""}

\* the index of the first token tok of text after position from, 0 if none
FirstAfter(text, tok, from) ==
    LET found == {i \in (from + 1)..Len(text) : text[i] = tok}
    IN IF found = {} THEN 0 ELSE CHOOSE i \in found : \A j \in found : i <= j

\* the index of the last token tok of text after position from, 0 if none
LastAfter(text, tok, from) ==
    LET found == {i \in (from + 1)..Len(text) : text[i] = tok}
    IN IF found = {} THEN 0 ELSE CHOOSE i \in found : \A j \in found : i >= j

\* text.match(/\{[\s\S]*?\}/) (line 584): from the first "{" to the first "}"
\* after it; <<>> for null
MatchLazy(text) ==
    LET open == FirstAfter(text, LC, 0)
        close == IF open = 0 THEN 0 ELSE FirstAfter(text, RC, open)
    IN IF close = 0 THEN <<>> ELSE SubSeq(text, open, close)

\* text.match(/\{[\s\S]*\}/) (line 874): from the first "{" to the last "}"
\* after it; <<>> for null
MatchGreedy(text) ==
    LET open == FirstAfter(text, LC, 0)
        close == IF open = 0 THEN 0 ELSE LastAfter(text, RC, open)
    IN IF close = 0 THEN <<>> ELSE SubSeq(text, open, close)

\* JSON.parse of a match throws unless it is one object
ParseThrows(match) == ~(Len(match) = 3 /\ match[2][1] = "body")

\* the object JSON.parse returns
Parsed(match) == match[2][2]

\* the response of agent.generate: a text, or no text property
Text(text) == [hasText |-> TRUE, text |-> text]
NoText == [hasText |-> FALSE, text |-> <<>>]

\* the messages of the errors of the tool, as sequences of their parts
NoError == <<>>
NoJSONInAIResponse == "No JSON found in AI response"
InvalidTimeRange == "Invalid time range format from AI"
MatchOfUndefined == "Cannot read properties of undefined (reading 'match')"
UnexpectedToken == "Unexpected token"
FailedToParseTimeRange(timeRangeStr, message) ==
    <<"Failed to parse time range ", timeRangeStr, message>>
AuthenticationRequired(status) ==
    <<"Authentication required: ", status, ". Please provide a valid auth token.">>
FailedToFetch(status) == <<"Failed to fetch logs: ", status>>
BodyIsNull == <<"Response body is null">>
FetchRejected == <<"fetch failed">>
NoJSONInResponse == "No JSON found in response"
FailedToParseResponse(message) == <<"Failed to parse agent response: ", message>>

\* the time range of a call without timeRangeStr (lines 413-415)
NullRange == [from |-> NullText, to |-> NullText]

\* what parseTimeRangeWithAI does with the response of the agent (lines
\* 581-607): the error it throws, NoError when it returns
TimeRangeError(timeRangeStr, response) ==
    IF ~response.hasText THEN FailedToParseTimeRange(timeRangeStr, MatchOfUndefined)
    ELSE IF MatchLazy(response.text) = <<>>
    THEN FailedToParseTimeRange(timeRangeStr, NoJSONInAIResponse)
    ELSE IF ParseThrows(MatchLazy(response.text))
    THEN FailedToParseTimeRange(timeRangeStr, UnexpectedToken)
    ELSE IF FalsyValue(Parsed(MatchLazy(response.text)).from)
              \/ FalsyValue(Parsed(MatchLazy(response.text)).to)
    THEN FailedToParseTimeRange(timeRangeStr, InvalidTimeRange)
    ELSE NoError

\* the range it returns (lines 600-603)
TimeRangeOf(response) ==
    [from |-> Parsed(MatchLazy(response.text)).from,
     to   |-> Parsed(MatchLazy(response.text)).to]

\* IsAuthStatus that knows 401 only
IsAuthStatusOnly401(status) == status = 401

\* the test of line 915
IsAuthStatus(status) == status = 401 \/ status = 403

\* response.ok
Ok(status) == status >= 200 /\ status <= 299

\* what getLogs does with the response of fetch (lines 914-943): the error it
\* throws, NoError when it returns the parsed body.  body is "array" or
\* "object" for the JSON text of one, "text" for other text, "null" for none.
GetLogsError(response) ==
    IF ~Ok(response.status)
    THEN IF IsAuthStatus(response.status)
         THEN AuthenticationRequired(response.status)
         ELSE FailedToFetch(response.status)
    ELSE IF response.body = "null" THEN BodyIsNull
    ELSE IF response.body = "text" THEN <<UnexpectedToken>>
    ELSE NoError

\* outputSchema (lines 636-663): the values of status and the bounds of
\* summary and recommendations
StatusEnum == {"Healthy", "Warning", "Critical"}
SummaryMin == 10
SummaryMax == 500
RecommendationMin == 5
RecommendationsMax == 10

\* outputSchema accepts the object: summary is the length of the summary,
\* recommendations the lengths of the recommendations, timeRange and
\* analyzedAt tell whether the property is there with the type declared
Conforms(analysis) ==
    /\ analysis.status \in StatusEnum
    /\ analysis.summary >= SummaryMin /\ analysis.summary <= SummaryMax
    /\ Len(analysis.recommendations) <= RecommendationsMax
    /\ \A i \in 1..Len(analysis.recommendations) :
          analysis.recommendations[i] >= RecommendationMin
    /\ analysis.timeRange /\ analysis.analyzedAt

\* the value no analysis has
NoAnalysis == [status |-> "", summary |-> 0, recommendations |-> <<>>,
               timeRange |-> FALSE, analyzedAt |-> FALSE]

\* what execute does with the response of the agent (lines 868-886): the
\* error it throws, NoError when it returns the parsed object
AnalysisError(response) ==
    IF ~response.hasText THEN FailedToParseResponse(MatchOfUndefined)
    ELSE IF MatchGreedy(response.text) = <<>> THEN FailedToParseResponse(NoJSONInResponse)
    ELSE IF ParseThrows(MatchGreedy(response.text))
    THEN FailedToParseResponse(UnexpectedToken)
    ELSE NoError

\* the context of no call
NoAnalyseContext == [endpoint |-> "", authToken |-> Undefined, timeRange |-> Undefined]

IdleAnalysis ==
    [pc |-> "idle", context |-> NoAnalyseContext, timeRange |-> NullRange,
     steps |-> <<>>, fetched |-> 0, output |-> NoText, result |-> NoAnalysis,
     error |-> NoError]

\* AnalysisFails that records the error and goes on waiting
AnalysisFailsAndWaits(a, error) == [a EXCEPT !.error = error]

\* execute ends with a thrown error
AnalysisFails(a, error) == [a EXCEPT !.pc = "failed", !.error = error]

\* getLogs is called: fetch is issued (lines 674-678 and 902-911)
CallsGetLogs(a, timeRange) ==
    [a EXCEPT !.pc = "fetching", !.timeRange = timeRange,
              !.steps = Append(@, "fetch")]

\* execute up to its first call that waits (lines 664-678, 406-415 and 579):
\* without an agent it throws; with a timeRange the agent is asked to
\* interpret it; without one the range is null to null and the logs are
\* fetched at once
ExecuteAnalyse(context, hasAgent) ==
    /\ an.pc = "idle"
    /\ an' = IF ~hasAgent
             THEN AnalysisFails([an EXCEPT !.context = context], AgentNotFound)
             ELSE IF FalsyValue(context.timeRange)
             THEN CallsGetLogs([an EXCEPT !.context = context], NullRange)
             ELSE [an EXCEPT !.pc = "interpreting", !.context = context,
                             !.steps = Append(@, "interpret")]
    /\ UNCHANGED <<logVars, clock, regVars, rpc>>

\* agent.generate of parseTimeRangeWithAI resolves (lines 579-608)
TimeRangeResolves(response) ==
    /\ an.pc = "interpreting"
    /\ an' = IF TimeRangeError(an.context.timeRange, response) # NoError
             THEN AnalysisFails(an, TimeRangeError(an.context.timeRange, response))
             ELSE CallsGetLogs(an, TimeRangeOf(response))
    /\ UNCHANGED <<logVars, clock, regVars, rpc>>

\* agent.generate of parseTimeRangeWithAI rejects: line 579 is outside the
\* try block
TimeRangeRejects ==
    /\ an.pc = "interpreting"
    /\ an' = AnalysisFails(an, <<GenerateFailed>>)
    /\ UNCHANGED <<logVars, clock, regVars, rpc>>

\* fetch resolves and the body is read to its end (lines 902-943), then the
\* prompt is built and the agent is asked for the analysis (lines 680-868)
FetchResolves(response) ==
    /\ an.pc = "fetching"
    /\ an' = IF GetLogsError(response) # NoError
             THEN AnalysisFails([an EXCEPT !.fetched = response.status],
                                GetLogsError(response))
             ELSE [an EXCEPT !.pc = "analysing", !.fetched = response.status,
                             !.steps = Append(@, "analyse")]
    /\ UNCHANGED <<logVars, clock, regVars, rpc>>

\* fetch rejects, or a read of the body does
FetchRejects ==
    /\ an.pc = "fetching"
    /\ an' = AnalysisFails(an, FetchRejected)
    /\ UNCHANGED <<logVars, clock, regVars, rpc>>

\* agent.generate of execute resolves (lines 868-889): the object parsed from
\* the text is returned as it is
AnalysisResolves(response) ==
    /\ an.pc = "analysing"
    /\ an' = IF AnalysisError(response) # NoError
             THEN AnalysisFails([an EXCEPT !.output = response], AnalysisError(response))
             ELSE [an EXCEPT !.pc = "returned", !.output = response,
                             !.result = Parsed(MatchGreedy(response.text))]
    /\ UNCHANGED <<logVars, clock, regVars, rpc>>

\* agent.generate of execute rejects: line 868 is outside the try block
AnalysisRejects ==
    /\ an.pc = "analysing"
    /\ an' = AnalysisFails(an, <<GenerateFailed>>)
    /\ UNCHANGED <<logVars, clock, regVars, rpc>>

\* no execution of the tool has started
AnalysisInit == an = IdleAnalysis

-----------------------------------------------------------------------------
(* src/mastra/routes/a2a-agent-route.ts: the handler of POST                *)
(* /a2a/agent/:agentId.  An id of a task, a context or a message is a       *)
(* sequence, <<>> when the property is not there; metadata, configuration   *)
(* and the data of a part are copied through and are left out.              *)

\* undefined, where a number or null may be
Undef == [kind |-> "undefined", v |-> 0]

\* an id the caller chose, and the n-th value of randomUUID() in one request
GivenId(name) == <<"id", name>>
Uuid(n) == <<"uuid", n>>
NoneId == <<>>

\* a || b of two ids
OrId(a, b) == IF a = NoneId THEN b ELSE a

\* requestId || null (line 25)
OrNull(id) == IF Falsy(id) THEN Null ELSE id

\* the agents mastra.getAgent finds
Agents == {"logAnalyserAgent"}

\* params.messages: not there, a value that is not an array, or an array
NoMessages == [kind |-> "undefined", list |-> <<>>]
NotAnArray == [kind |-> "string", list |-> <<>>]
ArrayOf(list) == [kind |-> "array", list |-> list]

\* params.message when it is not there
NoMessage == [given |-> FALSE, role |-> "", hasParts |-> FALSE, parts |-> <<>>,
              messageId |-> NoneId, taskId |-> NoneId, contextId |-> NoneId]

NoParams == [message |-> NoMessage, messages |-> NoMessages,
             taskId |-> NoneId, contextId |-> NoneId]

NoBody == [parses |-> FALSE, agentId |-> "", jsonrpc |-> Undefined, id |-> Undef,
           params |-> NoParams]

\* the error member of a response; code 0 is null
RpcError(code, message) == [code |-> code, message |-> message]
NullError == RpcError(0, <<>>)
InvalidRequest ==
    RpcError(-32600, <<"Invalid Request: jsonrpc must be ", "2.0", " and id is required">>)
AgentNotFoundError(agentId) == RpcError(-32602, <<"Agent '", agentId, "' not found">>)
InvalidParams == RpcError(-32602, <<"Invalid params: message or messages is required">>)
InternalError == RpcError(-32603, <<"Internal error">>)

\* the result member of a response that has none
NoTask == [id |-> NoneId, contextId |-> NoneId, state |-> "",
           message |-> [role |-> "", parts |-> <<>>, messageId |-> NoneId, taskId |-> NoneId],
           artifacts |-> 0, history |-> <<>>]

\* c.json(body, status)
Json(status, id, result, error) ==
    [status |-> status, id |-> id, result |-> result, error |-> error]
NoReply == Json(0, Null, NoTask, NullError)

\* the response of the catch block (lines 194-210)
CatchReply == Json(500, Null, NoTask, InternalError)

IdleRoute ==
    [pc |-> "idle", body |-> NoBody, messagesList |-> <<>>, mastraMessages |-> <<>>,
     currentTaskId |-> NoneId, conversationContext |-> NoneId,
     invoked |-> 0, generated |-> "no", sent |-> 0, reply |-> NoReply]

\* the text of one part for the agent (lines 83-87)
PartContent(part) ==
    IF part.kind = "text" THEN part.text
    ELSE IF part.kind = "data" THEN "<data>"
    ELSE ""

\* mastraMessages (lines 79-89): msg.parts?.map(...) takes a message without
\* parts as one with no parts
MastraMessage(msg) ==
    [role |-> msg.role,
     content |-> IF msg.hasParts
                 THEN [i \in 1..Len(msg.parts) |-> PartContent(msg.parts[i])]
                 ELSE <<>>]

\* line 134: msg.parts.map throws when a message has no parts
HistoryThrows(messagesList) ==
    \E i \in 1..Len(messagesList) : ~messagesList[i].hasParts

\* a part of the history (lines 134-139)
HistoryPart(part) ==
    [kind |-> IF FalsyValue(part.kind) THEN "text" ELSE part.kind,
     text |-> IF FalsyValue(part.text) THEN "" ELSE part.text]

\* the number of randomUUID() calls for the first i messages of the history
\* (line 140)
Lacking(messagesList, i) ==
    Cardinality({j \in 1..i : messagesList[j].messageId = NoneId})

\* the handler up to agent.generate (lines 13-91): the body is read and
\* checked; a request that passes the checks is handed to the agent
Handler(body) ==
    /\ rpc.pc = "idle"
    /\ LET params == body.params
           message == params.message
           rejected(reply) == [rpc EXCEPT !.pc = "done", !.body = body, !.sent = 1,
                                          !.reply = reply]
           accepted(messagesList, taskId, contextId) ==
               [rpc EXCEPT !.pc = "generating", !.body = body,
                           !.messagesList = messagesList,
                           !.mastraMessages = [i \in 1..Len(messagesList) |->
                                                 MastraMessage(messagesList[i])],
                           !.currentTaskId = taskId,
                           !.conversationContext = contextId,
                           !.invoked = @ + 1]
       IN rpc' =
            IF ~body.parses THEN rejected(CatchReply)
            ELSE IF body.jsonrpc # "2.0" \/ Falsy(body.id)
            THEN rejected(Json(400, OrNull(body.id), NoTask, InvalidRequest))
            ELSE IF body.agentId \notin Agents
            THEN rejected(Json(404, body.id, NoTask, AgentNotFoundError(body.agentId)))
            ELSE IF message.given
            THEN accepted(<<message>>, OrId(message.taskId, params.taskId),
                          OrId(message.contextId, params.contextId))
            ELSE IF params.messages.kind = "array"
            THEN accepted(params.messages.list, params.taskId, params.contextId)
            ELSE rejected(Json(400, body.id, NoTask, InvalidParams))
    /\ UNCHANGED <<logVars, clock, regVars, an>>

\* the response of the agent: its text, or no text, and its tool results
Generated(text, toolResults) == [text |-> text, toolResults |-> toolResults]

\* agent.generate resolves (lines 91-193): the response is built and sent,
\* unless building the history throws
GenerateResolvesRoute(response) ==
    /\ rpc.pc = "generating"
    /\ LET agentText == IF FalsyValue(response.text) THEN "" ELSE response.text
           agentResponseParts == <<[kind |-> "text", text |-> agentText]>>
           artifacts == IF response.toolResults > 0 THEN 2 ELSE 1
           responseMessageId == Uuid(artifacts + 1)
           drawn == IF rpc.currentTaskId = NoneId THEN artifacts + 2 ELSE artifacts + 1
           finalTaskId == OrId(rpc.currentTaskId, Uuid(artifacts + 2))
           list == rpc.messagesList
           history ==
               [i \in 1..Len(list) |->
                  [role |-> list[i].role,
                   parts |-> [k \in 1..Len(list[i].parts) |-> HistoryPart(list[i].parts[k])],
                   messageId |-> OrId(list[i].messageId, Uuid(drawn + Lacking(list, i))),
                   taskId |-> OrId(list[i].taskId, finalTaskId)]]
               \o <<[role |-> "agent", parts |-> agentResponseParts,
                     messageId |-> responseMessageId, taskId |-> finalTaskId]>>
           task ==
               [id |-> finalTaskId,
                contextId |-> OrId(rpc.conversationContext,
                                   Uuid(drawn + Lacking(list, Len(list)) + 1)),
                state |-> "completed",
                message |-> [role |-> "agent", parts |-> agentResponseParts,
                             messageId |-> responseMessageId, taskId |-> finalTaskId],
                artifacts |-> artifacts,
                history |-> history]
       IN rpc' = [rpc EXCEPT !.pc = "done", !.generated = "resolved", !.sent = @ + 1,
                             !.reply = IF HistoryThrows(list) THEN CatchReply
                                       ELSE Json(200, rpc.body.id, task, NullError)]
    /\ UNCHANGED <<logVars, clock, regVars, an>>

\* agent.generate rejects: the catch block answers
GenerateRejectsRoute ==
    /\ rpc.pc = "generating"
    /\ rpc' = [rpc EXCEPT !.pc = "done", !.generated = "rejected", !.sent = @ + 1,
                          !.reply = CatchReply]
    /\ UNCHANGED <<logVars, clock, regVars, an>>

\* no request has come
RouteInit == rpc = IdleRoute

-----------------------------------------------------------------------------
(* Spec: the server with one request to /api/logs, served while requests   *)
(* to /api/write-log and calls of the logger go on, over a file that is    *)
(* absent, empty, damaged or a store of up to three entries at the start.  *)

\* an entry as writeToFile wrote it at time ts
Entry(ts, message) ==
    Obj([timestamp |-> ts, level |-> "INFO", status |-> "N/A", message |-> message])

Absent == [exists |-> FALSE, text |-> <<>>]
FileOf(text) == [exists |-> TRUE, text |-> text]

\* a store of three entries with timestamps t1 < t2 < t3
Store123 ==
    StringifyArrayIndented(<<Entry(IsoStr(1), 1), Entry(IsoStr(2), 2), Entry(IsoStr(3), 3)>>)
\* a store with an entry that has no timestamp and one whose timestamp is no date
StoreOdd ==
    StringifyArrayIndented(<<Entry(Missing, 1), Entry(GarbageStr, 2)>>)
\* a store followed by a newline
StoreNewline ==
    StringifyArrayIndented(<<Entry(IsoStr(2), 1)>>) \o <<WS>>
\* an array with a null element, followed by a newline
ArrayWithNull ==
    <<LB>> \o Stringify(Entry(IsoStr(1), 1)) \o <<Comma>> \o Stringify(Entry(IsoStr(2), 2))
         \o <<Comma, NullTok, RB, WS>>
\* a file cut in the middle of a rewrite
Truncated == <<LB, WS>> \o StringifyIndented(Entry(IsoStr(1), 1)) \o <<Comma, WS, LC>>

InitFiles ==
    {Absent, FileOf(<<>>), FileOf(<<Junk>>), FileOf(Stringify(Entry(IsoStr(1), 1))),
     FileOf(<<LB, RB>>), FileOf(Store123), FileOf(StoreOdd), FileOf(StoreNewline),
     FileOf(ArrayWithNull), FileOf(Truncated)}

\* the values of the from and to parameters
Params == {Missing, NullStr, UndefStr, GarbageStr, IsoStr(0), IsoStr(2)}

\* the queries: every value of one parameter with the other one omitted or t2
ParamPairs ==
    {pq \in Params \X Params : pq[1] \in {Missing, IsoStr(2)} \/ pq[2] \in {Missing, IsoStr(2)}}

\* the bodies of the requests to /api/write-log
Bodies ==
    {[level |-> Undefined, message |-> 1, status |-> Undefined],
     [level |-> "INFO", message |-> 0, status |-> "ok"],
     [level |-> "INFO", message |-> 1, status |-> Undefined],
     [level |-> "ERROR", message |-> 1, status |-> "ok"]}

Init ==
    /\ logFile \in InitFiles
    /\ initFile = logFile
    /\ clock = 3
    /\ appended = <<>>
    /\ wreq = NoRequest
    /\ wres = [status |-> 0, at |-> 0]
    /\ calls = 0
    /\ q = IdleQuery
    /\ res = NoResponse
    /\ perm = "rw"
    /\ lastWrite = NoWrite
    /\ RegistryInit
    /\ AnalysisInit
    /\ RouteInit

Next ==
    \/ \E body \in Bodies : calls < MaxAppends /\ WriteLog(body, TickMs)
    \/ \E pq \in ParamPairs : QueryStart(pq[1], pq[2])
    \/ \E k \in 1..Len(logFile.text) : QueryData(k)
    \/ QueryEnd
    \/ calls < MaxAppends /\ QueryOpenError(TickMs)
    \/ calls < MaxAppends /\ QueryReadError(TickMs)

Spec == Init /\ [][Next]_vars

-----------------------------------------------------------------------------
(* SpecRetention: one caller appends MaxChain entries, one after the other, *)
(* to a store that starts absent; the k-th append carries message k.       *)

InitRetention ==
    /\ logFile = [exists |-> FALSE, text |-> <<>>]
    /\ initFile = logFile
    /\ clock = 1
    /\ appended = <<>>
    /\ wreq = NoRequest
    /\ wres = [status |-> 0, at |-> 0]
    /\ calls = 0
    /\ q = IdleQuery
    /\ res = NoResponse
    /\ perm = "rw"
    /\ lastWrite = NoWrite
    /\ RegistryInit
    /\ AnalysisInit
    /\ RouteInit

ChainWriteLog ==
    /\ calls < MaxChain /\ calls % 5 = 0
    /\ \E level \in {"INFO", "WARN", "ERROR"} :
          /\ (calls \div 5) % 3 = (CASE level = "INFO" -> 0 [] level = "WARN" -> 1 [] OTHER -> 2)
          /\ WriteLog([level |-> level, message |-> calls + 1,
                       status |-> IF calls % 2 = 0 THEN "ok" ELSE Undefined], TickMs)

ChainLoggerLog   == calls < MaxChain /\ calls % 5 = 1 /\ LoggerLog(calls + 1, Undefined, TickMs)
ChainLoggerError == calls < MaxChain /\ calls % 5 = 2 /\ LoggerError(calls + 1, "500", TickMs)
ChainLoggerWarn  == calls < MaxChain /\ calls % 5 = 3 /\ LoggerWarn(calls + 1, "", TickMs)
ChainLoggerInfo  == calls < MaxChain /\ calls % 5 = 4 /\ LoggerInfo(calls + 1, "ok", TickMs)

NextRetention ==
    \/ ChainWriteLog
    \/ ChainLoggerLog
    \/ ChainLoggerError
    \/ ChainLoggerWarn
    \/ ChainLoggerInfo

SpecRetention == InitRetention /\ [][NextRetention]_vars

-----------------------------------------------------------------------------
(* SpecAppend: up to MaxWrites calls of writeToFile, made by requests to    *)
(* /api/write-log and by direct calls of the logger in any order, on a     *)
(* file that may be absent, damaged, unreadable or unwritable.             *)

InitAppend ==
    /\ logFile \in InitFiles
    /\ initFile = logFile
    /\ clock = 3
    /\ appended = <<>>
    /\ wreq = NoRequest
    /\ wres = [status |-> 0, at |-> 0]
    /\ calls = 0
    /\ q = IdleQuery
    /\ res = NoResponse
    /\ perm \in Perms
    /\ lastWrite = NoWrite
    /\ RegistryInit
    /\ AnalysisInit
    /\ RouteInit

\* the messages of the direct calls
Messages == {7, 8}

NextAppend ==
    \/ \E body \in Bodies : calls < MaxWrites /\ WriteLog(body, TickMs)
    \/ \E m \in Messages : calls < MaxWrites /\ LoggerLog(m, Undefined, TickMs)
    \/ \E m \in Messages : calls < MaxWrites /\ LoggerError(m, ErrObject, TickMs)
    \/ \E m \in Messages : calls < MaxWrites /\ LoggerWarn(m, "", TickMs)
    \/ \E m \in Messages : calls < MaxWrites /\ LoggerInfo(m, "ok", TickMs)

SpecAppend == InitAppend /\ [][NextAppend]_vars

-----------------------------------------------------------------------------
(* SpecSchedules: up to MaxCreates executions of the create-schedule tool,  *)
(* each waiting for the agent while others run, with cancellations and     *)
(* listings in between; the log store is left alone.                       *)

Endpoints == {"https://x/logs", "https://y/logs"}

\* the arguments of the create-schedule tool
CreateArgs ==
    {[endpoint |-> "https://x/logs", interval |-> "every 30 minutes",
      authToken |-> Undefined, timeRange |-> Undefined],
     [endpoint |-> "https://y/logs", interval |-> "hourly",
      authToken |-> "secret", timeRange |-> "last 2 hours"]}

\* what the agent answers: a cron expression in backquotes with a space
\* before and after it, or a response without text
AgentResponses ==
    {Response(<<Space, "<backquote>", "*/30 * * * *", "<backquote>", Space>>),
     NoTextResponse}

\* the ids createSchedule has returned so far
IssuedIds == {oplog[i].id : i \in {j \in 1..Len(oplog) : oplog[j].op = "create"}}

InitSchedules ==
    /\ logFile = Absent
    /\ initFile = logFile
    /\ clock = 1
    /\ appended = <<>>
    /\ wreq = NoRequest
    /\ wres = [status |-> 0, at |-> 0]
    /\ calls = 0
    /\ q = IdleQuery
    /\ res = NoResponse
    /\ perm = "rw"
    /\ lastWrite = NoWrite
    /\ RegistryInit
    /\ AnalysisInit
    /\ RouteInit

NextSchedules ==
    \/ \E c \in 1..MaxCreates, args \in CreateArgs, hasAgent \in BOOLEAN :
          ExecuteCreate(c, args, hasAgent)
    \/ \E c \in 1..MaxCreates, response \in AgentResponses : GenerateResolves(c, response)
    \/ \E c \in 1..MaxCreates : GenerateRejects(c)
    \/ \E id \in IssuedIds \cup {NoId} : CancelSchedule(id) /\ UNCHANGED tool
    \/ \E e \in Endpoints : CancelSchedulesByEndpoint(e) /\ UNCHANGED tool
    \/ CancelAllSchedules /\ UNCHANGED tool
    \/ ListSchedules
    \/ clock < MaxClock /\ Tick(TickMs)

SpecSchedules == InitSchedules /\ [][NextSchedules]_vars

-----------------------------------------------------------------------------
(* SpecTools: the registry as the agent reaches it, by the create-schedule  *)
(* and cancel-schedule tools; the agent is there and answers with a cron    *)
(* expression.  The calls of the create-schedule tool take the two         *)
(* endpoints in turn, and one starts when the one before it has returned.   *)

\* the contexts of the cancel-schedule tool: each property is there or not,
\* scheduleId is an id that was issued, one that was not, or the empty string
Contexts ==
    {context \in [has : SUBSET {"cancelAll", "scheduleId", "endpoint"},
                  cancelAll : BOOLEAN,
                  scheduleId : IssuedIds \cup {NoId, <<>>},
                  endpoint : Endpoints \cup {""}] :
        /\ "cancelAll" \notin context.has => context.cancelAll = NoContext.cancelAll
        /\ "scheduleId" \notin context.has => context.scheduleId = NoContext.scheduleId
        /\ "endpoint" \notin context.has => context.endpoint = NoContext.endpoint}

InitTools == InitSchedules

NextTools ==
    \/ \E c \in 1..MaxCreates, args \in CreateArgs :
          /\ (args.authToken = Undefined) = (c % 2 = 1)
          /\ \A d \in 1..MaxCreates : creating[d].pc # "parsing"
          /\ ExecuteCreate(c, args, TRUE)
    \/ \E c \in 1..MaxCreates, response \in AgentResponses :
          response.hasText /\ GenerateResolves(c, response)
    \/ \E context \in Contexts : ExecuteCancel(context)

SpecTools == InitTools /\ [][NextTools]_vars

-----------------------------------------------------------------------------
(* SpecAnalysis: one execution of the log-analyser tool, with every answer  *)
(* of the agent and of the log source.                                      *)

AnalyseContexts ==
    {[endpoint |-> "https://x/logs", authToken |-> Undefined, timeRange |-> Undefined],
     [endpoint |-> "https://x/logs", authToken |-> Undefined, timeRange |-> ""],
     [endpoint |-> "https://y/logs", authToken |-> "secret", timeRange |-> "last 2 hours"]}

\* the JSON text of an object with the members b
ObjectText(b) == <<LC, Body(b), RC>>

From == "2025-11-03T08:30:00.000Z"
To   == "2025-11-03T10:30:00.000Z"

\* what the agent answers when asked for a time range: the object, the
\* object in other text, two objects, an object without to, text that is not
\* JSON, with braces and without, and a response without text
TimeRangeResponses ==
    {Text(ObjectText([from |-> From, to |-> To])),
     Text(<<Junk>> \o ObjectText([from |-> From, to |-> To]) \o <<Junk>>),
     Text(ObjectText([from |-> From, to |-> To]) \o ObjectText([from |-> To, to |-> To])),
     Text(ObjectText([from |-> From, to |-> ""])),
     Text(<<LC, Junk, RC>>),
     Text(<<Junk>>),
     NoText}

\* what the log source answers
FetchResponses == [status : {200, 204, 401, 403, 404, 500},
                   body : {"array", "object", "text", "null"}]

\* n recommendations of RecommendationMin characters
Recommendations(n) == [i \in 1..n |-> RecommendationMin]

\* the objects the agent may answer with: within the schema, at its bounds
\* and outside of it
Analyses ==
    [status : StatusEnum \cup {"Unknown"},
     summary : {SummaryMin - 1, SummaryMin, SummaryMax, SummaryMax + 1},
     recommendations : {<<>>, <<RecommendationMin - 1>>,
                        Recommendations(RecommendationsMax),
                        Recommendations(RecommendationsMax + 1)},
     timeRange : BOOLEAN, analyzedAt : BOOLEAN]

\* what the agent answers when asked for the analysis: an object, an object
\* in other text, text that is not JSON, and a response without text
AnalysisResponses ==
    {Text(ObjectText(analysis)) : analysis \in Analyses}
    \cup {Text(<<Junk>> \o ObjectText(analysis) \o <<Junk>>) :
             analysis \in {a \in Analyses : a.status = "Warning"}}
    \cup {Text(<<LC, Junk, RC>>), Text(<<Junk>>), NoText}

InitAnalysis == InitSchedules

NextAnalysis ==
    \/ \E context \in AnalyseContexts, hasAgent \in BOOLEAN : ExecuteAnalyse(context, hasAgent)
    \/ \E response \in TimeRangeResponses : TimeRangeResolves(response)
    \/ TimeRangeRejects
    \/ \E response \in FetchResponses : FetchResolves(response)
    \/ FetchRejects
    \/ \E response \in AnalysisResponses : AnalysisResolves(response)
    \/ AnalysisRejects

SpecAnalysis == InitAnalysis /\ [][NextAnalysis]_vars

-----------------------------------------------------------------------------
(* SpecRoute: one request to /a2a/agent/:agentId and the answer of the      *)
(* agent to it.                                                             *)

\* the parts of a message
TextPart == [kind |-> "text", text |-> "hello"]
BarePart == [kind |-> Undefined, text |-> Undefined]

\* a message of the caller
Message(role, hasParts, parts, messageId, taskId) ==
    [given |-> TRUE, role |-> role, hasParts |-> hasParts, parts |-> parts,
     messageId |-> messageId, taskId |-> taskId, contextId |-> NoneId]

\* the messages a request may hold: with parts, with a part without kind,
\* with a task id and a message id of its own, and without parts
UserMessages ==
    {Message("user", TRUE, <<TextPart>>, NoneId, NoneId),
     Message("user", TRUE, <<TextPart, BarePart>>, GivenId("m1"), GivenId("t1")),
     Message("agent", TRUE, <<>>, NoneId, NoneId),
     Message("user", FALSE, <<>>, NoneId, NoneId)}

MessageLists ==
    {<<>>} \cup {<<m>> : m \in UserMessages}
    \cup {<<m, n>> : m \in UserMessages, n \in {Message("agent", TRUE, <<>>, NoneId, NoneId)}}

ParamsSet ==
    {NoParams}
    \cup [message : UserMessages \cup {NoMessage},
          messages : {NoMessages, NotAnArray} \cup {ArrayOf(list) : list \in MessageLists},
          taskId : {NoneId, GivenId("t2")},
          contextId : {NoneId, GivenId("c1")}]

\* the bodies of a request: one that is not JSON, and the JSON objects
RequestBodies ==
    {NoBody}
    \cup [parses : {TRUE}, agentId : Agents \cup {"nobody"},
          jsonrpc : {"2.0", "1.0", Undefined},
          id : {Undef, Null, Num(0), Num(7)},
          params : ParamsSet]

Generations == {Generated("done", 0), Generated(Undefined, 1)}

InitRoute == InitSchedules

NextRoute ==
    \/ \E body \in RequestBodies : Handler(body)
    \/ \E response \in Generations : GenerateResolvesRoute(response)
    \/ GenerateRejectsRoute

SpecRoute == InitRoute /\ [][NextRoute]_vars

-----------------------------------------------------------------------------
(* Retention and order of the store *)

\* the retention cap the documentation states
MAX_RETAINED == 500

\* the store started absent or well-formed
StartedAsStore == ~initFile.exists \/ WellFormed(initFile)

\* C1: starting from an absent or well-formed store, after any sequence of
\* appends the persisted file is a JSON array of at most 500 entries
C1_AtMostMaxRetained ==
    (StartedAsStore /\ calls >= 1) =>
        /\ WellFormed(logFile)
        /\ Len(Entries(logFile)) <= MAX_RETAINED

\* more than 500 appends have been made and the store has dropped entries
C1_Witness ==
    /\ calls > MAX_RETAINED
    /\ Len(Entries(logFile)) < calls
    /\ Len(Entries(logFile)) <= MAX_RETAINED

\* the last n elements of s
LastN(s, n) == SubSeq(s, Len(s) - n + 1, Len(s))

\* C2: starting from an absent store, after the N-th append the store holds
\* exactly min(N, 500) entries: the min(N, 500) most recently appended ones
C2_ExactlyMinN500 ==
    (~initFile.exists /\ calls >= 1 /\ Len(appended) = calls) =>
        /\ Len(Entries(logFile)) = Min(calls, MAX_RETAINED)
        /\ Entries(logFile)
             = [i \in 1..Min(calls, MAX_RETAINED) |->
                  Obj(LastN(appended, Min(calls, MAX_RETAINED))[i])]

\* C3: a successful append puts the new entry last and keeps a suffix of the
\* previous array, unchanged: what is removed is older than all that is kept
C3_AppendKeepsSuffix ==
    [][(calls' = calls + 1 /\ ~WriteThrows(logFile)) =>
          LET old == Entries(logFile)
              new == Entries(logFile')
              kept == Len(new) - 1
          IN /\ Len(new) >= 1
             /\ new[Len(new)] = Obj(appended'[Len(appended')])
             /\ kept <= Len(old)
             /\ SubSeq(new, 1, kept) = LastN(old, kept)]_vars

\* an append has discarded the oldest entry of a full store: the store holds
\* the messages calls - KeptLogs .. calls
C3_Witness ==
    /\ calls > KeptLogs + 1
    /\ Len(Entries(logFile)) = KeptLogs + 1
    /\ Entries(logFile)[1][2].message = calls - KeptLogs
    /\ Entries(logFile)[KeptLogs + 1][2].message = calls

-----------------------------------------------------------------------------
(* The read endpoint *)

\* the request was served to its end: the stream ended, or there was no file
\* to open; no rewrite of the file happened meanwhile
Served ==
    /\ ~q.raced
    /\ q.mode = "done" \/ (q.mode = "failed" /\ ~q.snap.exists)

\* the literals the documentation lists as malformed bounds
Malformed(param) == param \in {NullStr, UndefStr, GarbageStr}

\* the array the response body holds, <<>> when the body is no JSON array
Returned == LET p == JSONParse(res.body) IN IF p.ok /\ p.isArray THEN p.elems ELSE <<>>
ReturnsArray == LET p == JSONParse(res.body) IN p.ok /\ p.isArray

\* the response body of a filtered request when the whole text arrives in
\* one chunk (no "data" event for an empty file)
OneChunkBody(text, fromTime, toTime) ==
    IF NoFilter(fromTime, toTime) THEN text
    ELSE IF text = <<>> THEN FilterOnEnd(FilterStart).out
    ELSE FilterOnEnd(FilterOnData(FilterStart, text, fromTime, toTime)).out

\* C4: an unbounded query right after an accepted write returns an array
\* whose last element has the level, message and status of the request
\* ("N/A" for an omitted status)
C4_RoundTrip ==
    (q.mode = "done" /\ q.imm /\ ~q.raced /\ StartedAsStore
        /\ q.from = Missing /\ q.to = Missing) =>
        /\ ReturnsArray
        /\ Len(Returned) >= 1
        /\ LET last == Returned[Len(Returned)]
           IN /\ last[1] = "obj"
              /\ last[2].level = q.wreq.level
              /\ last[2].message = q.wreq.message
              /\ last[2].status = (IF q.wreq.status = Undefined THEN "N/A"
                                   ELSE q.wreq.status)

\* the entries the documentation's filter selects: every entry when no bound
\* is given, else the entries with a timestamp inside the inclusive bounds
Selected(elems, from, to) ==
    IF from = Missing /\ to = Missing THEN elems
    ELSE SelectSeq(elems, LAMBDA e :
            /\ HasTimestamp(e)
            /\ (from = Missing \/ Leq(DateGetTime(from), DateGetTime(e[2].timestamp)))
            /\ (to = Missing \/ Leq(DateGetTime(e[2].timestamp), DateGetTime(to))))

\* a bound that is omitted or a parseable timestamp
Parseable(param) == param = Missing \/ param.txt = "iso"

\* C5: over a well-formed store, with bounds that are omitted or parseable,
\* the response holds exactly the selected entries in stored order
C5_RangeFilter ==
    (q.mode = "done" /\ ~q.raced /\ WellFormed(q.snap)
        /\ Parseable(q.from) /\ Parseable(q.to)) =>
        /\ ReturnsArray
        /\ Returned = Selected(Entries(q.snap), q.from, q.to)

\* the parameter as the same query with the malformed bound omitted has it
Omit(param) == IF Malformed(param) THEN Missing ELSE param

\* C6: a query with a malformed bound is answered as the same query with
\* that bound omitted, and never with an error
C6_InvalidBound ==
    (Served /\ (~q.snap.exists \/ WellFormed(q.snap))
        /\ (Malformed(q.from) \/ Malformed(q.to))) =>
        /\ res.status = 200
        /\ res.body = OneChunkBody(q.snap.text, ParamTime(Omit(q.from)),
                                   ParamTime(Omit(q.to)))

\* C7: a query against a missing or empty file is answered with the body []
\* and no error status
C7_EmptyQuery ==
    (Served /\ (~q.snap.exists \/ q.snap.text = <<>>)) =>
        /\ res.status = 200
        /\ res.body = <<LB, RB>>

\* C8: over a well-formed store a filtered query answers as if the content
\* had come in one chunk, whatever the chunks are, and writes to the response
\* only when the accumulated buffer is a complete JSON array
C8_ChunkIndependence ==
    [][/\ (q'.mode = "done" /\ q'.kind = "filter" /\ ~q'.raced /\ WellFormed(q'.snap)) =>
            res'.body = OneChunkBody(q'.snap.text, q'.fromTime, q'.toTime)
       /\ (q'.mode = "filter" /\ res'.body # res.body) =>
            LET p == JSONParse(q'.st.acc) IN p.ok /\ p.isArray]_vars

\* a filtered query over a three-entry store has ended after more than one
\* chunk and has returned entries
C8_Witness ==
    /\ q.mode = "done" /\ q.kind = "filter" /\ ~q.raced
    /\ q.snap = FileOf(Store123)
    /\ q.chunks = 2
    /\ Len(Returned) = 2

RECURSIVE IsSubseq(_, _)
\* a is b with some elements left out
IsSubseq(a, b) ==
    IF a = <<>> THEN TRUE
    ELSE IF b = <<>> THEN FALSE
    ELSE IF Head(a) = Head(b) THEN IsSubseq(Tail(a), Tail(b))
    ELSE IsSubseq(a, Tail(b))

\* the objects of a text, in the order of the text
ObjectsOf(text) == SelectSeq(Lex(Strip(text)), LAMBDA x : x[1] = "obj")

\* C9: whatever the file content and the chunks, the writes of a filtered
\* query form one JSON array: "[", the emitted entries in stored order with a
\* "," between two of them, "]"; [] when no entry qualifies
C9_OneJsonArray ==
    (q.mode = "done" /\ q.kind = "filter" /\ ~q.raced /\ q.snap.exists) =>
        /\ ReturnsArray
        /\ res.body = <<LB>> \o EmitText(Returned, TRUE) \o <<RB>>
        /\ IsSubseq(Returned, ObjectsOf(q.snap.text))

\* a bound the documentation treats as absent
TreatedAsAbsent(param) == param \in {Missing, NullStr, UndefStr, GarbageStr}

-----------------------------------------------------------------------------
(* Reads that race appends, and concurrent appends *)

RECURSIVE StoreAfter(_)
\* the array of the store once the first k entries of appended are written
StoreAfter(k) ==
    IF k = 0 THEN Entries(initFile)
    ELSE KeepLast(StoreAfter(k - 1), appended[k])

\* the file once the first k entries of appended are written
FileAfter(k) ==
    IF k = 0 THEN initFile ELSE FileOf(StringifyArrayIndented(StoreAfter(k)))

\* C11: a query that runs while appends rewrite the file answers with the
\* content of one fully written state of the store (as one chunk of it would
\* be answered), never with a mix of two states, and between two appends the
\* file, where it exists, is a JSON array of entries
C11_ConsistentRead ==
    StartedAsStore =>
        /\ logFile.exists => WellFormed(logFile)
        /\ q.mode = "done" =>
              \E k \in 0..Len(appended) :
                  /\ FileAfter(k).exists
                  /\ res.body = OneChunkBody(FileAfter(k).text, q.fromTime, q.toTime)

\* C12: every call of writeToFile on a readable and writable store works on
\* the array the previous call left: after k calls in any order all k entries
\* are there, after the entries of the start, but for those the cap of
\* KeptLogs + 1 entries has dropped from the front
C12_NoLostUpdate ==
    (StartedAsStore /\ perm = "rw") =>
        /\ Len(appended) = calls
        /\ LET all == Entries(initFile) \o [i \in 1..calls |-> Obj(appended[i])]
           IN Entries(logFile) = LastN(all, Min(Len(all), KeptLogs + 1))

\* three appends through three entry points have followed each other on a
\* store of three entries
C12_Witness ==
    /\ initFile = FileOf(Store123) /\ perm = "rw"
    /\ calls = 3
    /\ Len(Entries(logFile)) = 6
    /\ {appended[i].level : i \in 1..3} = {"INFO", "WARN", "ERROR"}

-----------------------------------------------------------------------------
(* Failures of the write path and of the read path *)

\* C13: whatever the file is (absent, empty, no JSON, JSON that is no array,
\* unreadable, unwritable), a call of writeToFile returns to its caller; a
\* failure is reported on the console, and only there
C13_AppendNeverRaises ==
    /\ lastWrite.outcome # "raised"
    /\ calls >= 1 => lastWrite.outcome = "returned"
    /\ (calls >= 1 /\ Len(appended) = 0) => (lastWrite.reported /\ logFile = initFile)

\* a call on a file that cannot be written has failed and returned, and the
\* next request has been answered
C13_Witness ==
    /\ perm = "unwritable" /\ WellFormed(initFile)
    /\ calls = 2 /\ appended = <<>>
    /\ lastWrite.outcome = "returned" /\ lastWrite.reported
    /\ wres.status = 201 /\ wres.at = 2

\* C14: an append made while the file is empty or holds no valid JSON
\* completes as on an empty store: it leaves a JSON array that holds the new
\* entry and nothing else
C14_MalformedAsEmpty ==
    [][(calls' = calls + 1 /\ perm = "rw" /\ logFile.exists
            /\ ~JSONParse(logFile.text).ok) =>
          /\ WellFormed(logFile')
          /\ Len(appended') = Len(appended) + 1
          /\ Entries(logFile') = <<Obj(appended'[Len(appended')])>>]_vars

\* C15: /api/write-log answers 400 exactly when level or message is missing
\* and 201 otherwise; a request answered 400 leaves the file as it is, a
\* request answered 201 has appended one entry, which carries its message
C15_WriteEndpoint ==
    [][(wres' # wres \/ wreq' # wreq) =>
          /\ wres'.status \in {400, 201}
          /\ wres'.status = 400 <=> (wreq'.level = Undefined \/ wreq'.message = 0)
          /\ wres'.status = 400 => logFile' = logFile
          /\ wres'.status = 201 =>
                /\ Len(appended') = Len(appended) + 1
                /\ appended'[Len(appended')].message = wreq'.message
                /\ Len(Entries(logFile')) >= 1
                /\ Entries(logFile')[Len(Entries(logFile'))]
                     = Obj(appended'[Len(appended')])]_vars

\* C16: when the read fails before anything of the response is sent the
\* answer is 500 with the error body; when it fails later the response is
\* ended as it stands, with the status and the body sent so far; either way
\* the request has one complete response
C16_ReadFailure ==
    [][(Reading /\ q'.mode = "failed") =>
          /\ res'.ended
          /\ IF res.status = 0 THEN res' = ResError500
             ELSE res' = ResEnd(res)]_vars

-----------------------------------------------------------------------------
(* The schedule registry *)

RECURSIVE Replay(_)
\* the schedules that are created and not cancelled after the first k
\* operations of oplog, in the order of their creation
Replay(k) ==
    IF k = 0 THEN <<>>
    ELSE LET prev == Replay(k - 1)
             call == oplog[k]
         IN CASE call.op = "create" -> Append(prev, call.config)
              [] call.op = "cancel" ->
                   SelectSeq(prev, LAMBDA config : config.id # call.id)
              [] call.op = "cancelByEndpoint" ->
                   SelectSeq(prev, LAMBDA config : config.endpoint # call.endpoint)
              [] OTHER -> <<>>

\* the listing of the schedules created and not cancelled after k operations
Expected(k) == LET live == Replay(k) IN [i \in 1..Len(live) |-> ListEntry(live[i])]

\* C17: after any sequence of creations and cancellations listSchedules
\* returns the schedules created and not cancelled since, each once, in the
\* order of their creation; the last listing returned is the one of the
\* operations that came before it
C17_RegistryContents ==
    LET list == Listing(schedules)
    IN /\ list = Expected(Len(oplog))
       /\ \A i, j \in 1..Len(list) : list[i].id = list[j].id => i = j
       /\ ret.call.op = "list" => \E k \in 0..Len(oplog) : ret.list = Expected(k)

\* two schedules were created, the first was cancelled by its id, and the
\* listing made since shows the second one only
C17_Witness ==
    /\ Len(oplog) = 3
    /\ oplog[1].op = "create" /\ oplog[2].op = "create"
    /\ oplog[3] = CancelOp(oplog[1].id)
    /\ ret.call.op = "list"
    /\ ret.list = <<ListEntry(oplog[2].config)>>
    /\ ret.list = Listing(schedules)

\* the positions of oplog that are creations
Creations == {k \in 1..Len(oplog) : oplog[k].op = "create"}

\* C18: whatever the interleaving of creations, which wait for the agent
\* before they take their id, and cancellations: no two creations have the
\* same id, a cancelled id included, the calls that returned have returned
\* different ids, and every stored configuration is the one created under
\* its id
C18_UniqueIds ==
    /\ \A k, l \in Creations : oplog[k].id = oplog[l].id => k = l
    /\ \A c, d \in 1..MaxCreates :
          (creating[c].pc = "returned" /\ creating[d].pc = "returned"
              /\ creating[c].result.id = creating[d].result.id) => c = d
    /\ \A i \in 1..Len(schedules) :
          \E k \in Creations : oplog[k].config = schedules[i]
    /\ \A k \in Creations : oplog[k].id # NoId

\* the second call overtook the first while both waited for the agent; its
\* schedule was cancelled before the first call took its id, in the same
\* millisecond
C18_Witness ==
    /\ creating[1].pc = "returned" /\ creating[2].pc = "returned"
    /\ creating[2].result.id = ScheduleId(1, clock)
    /\ creating[1].result.id = ScheduleId(2, clock)
    /\ Len(oplog) = 3
    /\ oplog[2] = CancelOp(creating[2].result.id)
    /\ Len(schedules) = 1

\* a call of the create-schedule tool has ended in this step
Ended(c) == creating[c].pc \in {"idle", "parsing"} /\ creating'[c].pc \in {"returned", "failed"}

\* C19 as stated: every call of the create-schedule tool that has ended has
\* stored a configuration and returned its id; there is no failure outcome
C19_CreateAlwaysSucceeds ==
    \A c \in 1..MaxCreates :
        creating[c].pc \in {"returned", "failed"} =>
            /\ creating[c].pc = "returned"
            /\ creating[c].result.success
            /\ \E k \in Creations : oplog[k].id = creating[c].result.id

\* C19 as the code has it: a call whose agent is there and answers with a
\* text stores exactly one new configuration, after the ones that are there,
\* with the endpoint and the interval of the call and the cron expression it
\* returns, and returns the id of that configuration; a call without agent,
\* with a failed derivation or with a response without text ends with
\* success false and an error message, and stores nothing
C19_CreateUnlessDerivationFails ==
    [][\A c \in 1..MaxCreates : Ended(c) =>
          IF creating'[c].pc = "returned"
          THEN /\ creating[c].pc = "parsing"
               /\ creating'[c].result.success
               /\ Len(schedules') = Len(schedules) + 1
               /\ SubSeq(schedules', 1, Len(schedules)) = schedules
               /\ LET config == schedules'[Len(schedules')]
                  IN /\ config.id = creating'[c].result.id
                     /\ config.endpoint = creating[c].args.endpoint
                     /\ config.interval = creating[c].args.interval
                     /\ config.cronExpression = creating'[c].result.cronExpression
                     /\ \A ch \in Quotes : \A i \in 1..Len(config.cronExpression) :
                            config.cronExpression[i] # ch
          ELSE /\ schedules' = schedules
               /\ scheduleCounter' = scheduleCounter
               /\ ~creating'[c].result.success
               /\ creating'[c].result.id = NoId
               /\ IF creating[c].pc = "idle"
                  THEN creating'[c].result.error = AgentNotFound
                  ELSE creating'[c].result.error
                         \in {FailedToCreate(GenerateFailed), FailedToCreate(TextUndefined)}]_vars

\* one call has failed on the agent and the other has stored its schedule
\* next to none
C19_Witness ==
    /\ creating[1].pc = "failed" /\ creating[1].result.error = FailedToCreate(GenerateFailed)
    /\ creating[2].pc = "returned" /\ creating[2].result.success
    /\ Len(schedules) = 1
    /\ schedules[1].id = creating[2].result.id
    /\ schedules[1].endpoint = creating[2].args.endpoint
    /\ schedules[1].cronExpression = <<"*/30 * * * *">>

\* a bulk cancellation has been made in this step
BulkStep(op) ==
    /\ ret'.call.op = op
    /\ creating' = creating /\ clock' = clock /\ scheduleCounter' = scheduleCounter
    /\ ret' # ret \/ schedules' # schedules

\* C20: cancelSchedulesByEndpoint(e) removes the schedules with endpoint e,
\* leaves the others as they are and in their order, and returns their
\* number; cancelAllSchedules removes every schedule and returns the number
\* held; each returns success false and count 0 when it removes nothing
C20_BulkCancel ==
    [][/\ BulkStep("cancelByEndpoint") =>
            LET e == ret'.call.endpoint
                n == Cardinality({i \in 1..Len(schedules) : schedules[i].endpoint = e})
            IN /\ schedules' = SelectSeq(schedules, LAMBDA config : config.endpoint # e)
               /\ ret'.cancelledCount = n
               /\ ret'.success = (n > 0)
       /\ BulkStep("cancelAll") =>
            /\ schedules' = <<>>
            /\ ret'.cancelledCount = Len(schedules)
            /\ ret'.success = (Len(schedules) > 0)]_vars

\* the two schedules of one endpoint have been cancelled together
C20_Witness ==
    /\ ret.call.op = "cancelByEndpoint" /\ ret.success
    /\ ret.cancelledCount = 2
    /\ Len(oplog) = 3
    /\ oplog[1].endpoint = ret.call.endpoint /\ oplog[2].endpoint = ret.call.endpoint
    /\ schedules = <<>>

\* a call of cancelSchedule has been made in this step
CancelStep == BulkStep("cancel")

\* C21: cancelSchedule with an id that is not in the registry, never issued
\* or cancelled before, returns success false and leaves the registry as it
\* is; with the id of a stored schedule it returns success true and removes
\* that schedule and no other
C21_CancelSoftFailure ==
    [][CancelStep =>
          LET id == ret'.call.id
          IN IF \E i \in 1..Len(schedules) : schedules[i].id = id
             THEN /\ ret'.success
                  /\ Len(schedules') = Len(schedules) - 1
                  /\ schedules' = SelectSeq(schedules, LAMBDA config : config.id # id)
             ELSE /\ ~ret'.success
                  /\ schedules' = schedules
                  /\ oplog' = oplog]_vars

\* the id of a schedule that was cancelled before has been cancelled again,
\* while another schedule is stored
C21_Witness ==
    /\ ret.call.op = "cancel" /\ ~ret.success
    /\ ret.call.id \in IssuedIds
    /\ \E k \in 1..Len(oplog) : oplog[k] = CancelOp(ret.call.id)
    /\ Len(schedules) = 1
    /\ schedules[1].id # ret.call.id

\* C28: a call whose cron derivation fails ends with success false, stores
\* no configuration and leaves the counter, the Map and the last result of
\* the registry as they are; the counter counts the stored creations only
C28_FailedCreateNoEffect ==
    [][/\ \A c \in 1..MaxCreates :
            (creating[c].pc = "parsing" /\ creating'[c].pc = "failed") =>
                /\ ~creating'[c].result.success
                /\ creating'[c].result.id = NoId
                /\ schedules' = schedules
                /\ scheduleCounter' = scheduleCounter
                /\ ret' = ret /\ oplog' = oplog
       /\ scheduleCounter' = Cardinality({k \in 1..Len(oplog') : oplog'[k].op = "create"})]_vars

\* the first call failed on its derivation and the second one, made later,
\* took the first id and is the only schedule listed
C28_Witness ==
    /\ creating[1].pc = "failed"
    /\ creating[1].result.error = FailedToCreate(GenerateFailed)
    /\ creating[2].pc = "returned"
    /\ creating[2].result.id[1] = 1
    /\ scheduleCounter = 1
    /\ ret.call.op = "list" /\ Len(ret.list) = 1
    /\ ret.list[1].id = creating[2].result.id

\* the values of authToken
Tokens == {Undefined, "secret", "other"}

\* the Map m with the tokens t in place of its own
WithTokens(m, t) == [i \in 1..Len(m) |-> [m[i] EXCEPT !.authToken = t[i]]]

\* C29: registries that hold the same schedules and differ in the auth
\* tokens only give the same listSchedules result and the same result of the
\* list-schedules tool
C29_ListingHidesTokens ==
    \A t \in [1..Len(schedules) -> Tokens] :
        /\ Listing(WithTokens(schedules, t)) = Listing(schedules)
        /\ ListSchedulesToolResult(WithTokens(schedules, t))
             = ListSchedulesToolResult(schedules)

\* a schedule with a token and one without are stored and have been listed
C29_Witness ==
    /\ Len(schedules) = 2
    /\ {schedules[1].authToken, schedules[2].authToken} = {"secret", Undefined}
    /\ ret.call.op = "list"
    /\ ret.list = Listing(schedules)

\* a step of the handler of /api/logs: the query moves on or the response
\* changes
QueryStep == q'.mode # q.mode \/ q'.pos # q.pos \/ res' # res

\* C25: no step of a request to the read endpoint, whether it streams,
\* answers an empty array or fails with 500, changes LOG_FILE
C25_QueryNeverModifiesStore == [][QueryStep => logFile' = logFile]_vars

\* the cancel-schedule tool has been executed in this step
ToolStep ==
    /\ tool'.called
    /\ tool' # tool \/ schedules' # schedules
    /\ scheduleCounter' = scheduleCounter /\ creating' = creating /\ clock' = clock

\* C30: an execution of the cancel-schedule tool applies one selector, the
\* first of cancelAll, scheduleId and endpoint that is given: with cancelAll
\* true no schedule is left, whatever the two others are; else with a
\* scheduleId that schedule alone is removed, also when an endpoint is given;
\* else with an endpoint the schedules of that endpoint; with none of them
\* success is false and the registry is as it was
C30_SelectorPrecedence ==
    [][ToolStep =>
          LET context == tool'.context
              all == "cancelAll" \in context.has /\ context.cancelAll
              byId == "scheduleId" \in context.has /\ context.scheduleId # <<>>
              byEndpoint == "endpoint" \in context.has /\ context.endpoint # ""
          IN IF all
             THEN /\ schedules' = <<>>
                  /\ tool'.result.call = CancelAllOp
                  /\ tool'.result.success = (schedules # <<>>)
             ELSE IF byId
             THEN /\ schedules' = SelectSeq(schedules,
                                            LAMBDA config : config.id # context.scheduleId)
                  /\ tool'.result.call = CancelOp(context.scheduleId)
                  /\ tool'.result.success = (schedules' # schedules)
             ELSE IF byEndpoint
             THEN /\ schedules' = SelectSeq(schedules,
                                            LAMBDA config : config.endpoint # context.endpoint)
                  /\ tool'.result.call = CancelByEndpointOp(context.endpoint)
                  /\ tool'.result.success = (schedules' # schedules)
             ELSE /\ ~tool'.result.success
                  /\ tool'.message = PleaseProvide
                  /\ schedules' = schedules /\ ret' = ret /\ oplog' = oplog]_vars

\* the tool was given the id of one schedule and the endpoint of another:
\* the first is gone and the second is still stored
C30_Witness ==
    /\ tool.called /\ tool.result.success
    /\ tool.context.has = {"scheduleId", "endpoint"}
    /\ tool.result.call = CancelOp(tool.context.scheduleId)
    /\ Len(schedules) = 1
    /\ schedules[1].endpoint = tool.context.endpoint
    /\ schedules[1].id # tool.context.scheduleId

\* C22: an answer 401 or 403 of the log source ends the execution with the
\* authentication-required error, any other status outside 200..299 with the
\* failed-to-fetch error, the two differ, and an answer within 200..299 ends
\* with neither
C22_AuthClassification ==
    an.fetched # 0 =>
        IF an.fetched \in {401, 403}
        THEN an.pc = "failed" /\ an.error = AuthenticationRequired(an.fetched)
        ELSE IF an.fetched < 200 \/ an.fetched > 299
        THEN /\ an.pc = "failed" /\ an.error = FailedToFetch(an.fetched)
             /\ an.error # AuthenticationRequired(an.fetched)
             /\ an.error[1] # AuthenticationRequired(an.fetched)[1]
        ELSE IF an.error = NoError THEN an.pc \in {"analysing", "returned"}
        ELSE an.error[1] \notin {AuthenticationRequired(an.fetched)[1],
                                 FailedToFetch(an.fetched)[1]}

\* the log source answered 403 to a request with a token
C22_Witness ==
    /\ an.fetched = 403
    /\ an.context.authToken = "secret"
    /\ an.pc = "failed"
    /\ an.error = AuthenticationRequired(403)

\* C23: the execution returns a result only when the object found in the
\* answer of the agent conforms to outputSchema
C23_OutputValidated == an.pc = "returned" => Conforms(an.result)

\* the orders in which one execution may have made its calls
StepOrders ==
    {<<>>, <<"interpret">>, <<"fetch">>, <<"interpret", "fetch">>,
     <<"fetch", "analyse">>, <<"interpret", "fetch", "analyse">>}

\* C24: one execution asks for at most one interpretation of the time
\* range, then makes at most one fetch, then asks for at most one analysis;
\* it has failed exactly when it has an error, and once it has failed or
\* returned it makes no further call and changes nothing
C24_SingleAttempt ==
    [][/\ an'.steps \in StepOrders
       /\ (an'.pc = "failed") = (an'.error # NoError)
       /\ (an.error # NoError \/ an.pc \in {"failed", "returned"}) => an' = an]_vars

\* the fetch that followed the interpretation of the range failed: no
\* analysis was asked for
C24_Witness ==
    /\ an.pc = "failed"
    /\ an.steps = <<"interpret", "fetch">>
    /\ an.error = FailedToFetch(500)

\* C26: the route answers 400 with code -32600 exactly when jsonrpc is not
\* "2.0" or the body has no id, 404 with code -32602 when the id is there and
\* the agent is not, 400 with code -32602 when both are there and params has
\* neither a message nor an array of messages; the response to a rejected
\* request has the id of the request and the agent has not been called
C26_RequestValidation ==
    (rpc.pc # "idle" /\ rpc.body.parses) =>
        LET body == rpc.body
            reply == rpc.reply
            invalid == body.jsonrpc # "2.0" \/ body.id \in {Undef, Null}
            unknown == body.agentId \notin Agents
            empty == ~body.params.message.given /\ body.params.messages.kind # "array"
        IN /\ (reply.status = 400 /\ reply.error.code = -32600) = invalid
           /\ (~invalid /\ unknown) => (reply.status = 404 /\ reply.error.code = -32602)
           /\ (~invalid /\ ~unknown /\ empty) =>
                 (reply.status = 400 /\ reply.error.code = -32602)
           /\ reply.error.code \in {-32600, -32602} =>
                 /\ reply.id = (IF body.id = Undef THEN Null ELSE body.id)
                 /\ rpc.invoked = 0 /\ rpc.sent = 1

\* C27: a request that passed the checks and whose agent call resolved gets
\* one response with status 200, the id of the request, state completed and
\* error null; its history is the messages of the request in their order and
\* then one message of the agent; result.id, the taskId of the status message
\* and the taskId of the agent's entry of the history are one value, the task
\* id of the caller when there is one
C27_SuccessResponse ==
    (rpc.pc = "done" /\ rpc.generated = "resolved") =>
        LET reply == rpc.reply
            task == reply.result
            params == rpc.body.params
            list == IF params.message.given THEN <<params.message>>
                    ELSE params.messages.list
            supplied == IF params.message.given /\ params.message.taskId # NoneId
                        THEN params.message.taskId ELSE params.taskId
        IN /\ rpc.sent = 1 /\ rpc.invoked = 1
           /\ reply.status = 200 /\ reply.id = rpc.body.id
           /\ reply.error = NullError
           /\ task.state = "completed"
           /\ Len(task.history) = Len(list) + 1
           /\ \A i \in 1..Len(list) : task.history[i].role = list[i].role
           /\ task.history[Len(list) + 1].role = "agent"
           /\ task.id # NoneId
           /\ task.message.taskId = task.id
           /\ task.history[Len(list) + 1].taskId = task.id
           /\ supplied # NoneId => task.id = supplied

====
